---- MODULE Spec2Model ----
(***************************************************************************)
(* A model of the s3_athena command-line tool: the Athena query runner     *)
(* (athena_module), the bucket provisioner (s3_module) and the helper      *)
(* functions (utils/helpers.py).  Python strings are modelled as sequences *)
(* of one-character strings, so that split, lower, replace and the other   *)
(* string methods are computed character by character.                     *)
(***************************************************************************)
EXTENDS Integers, Sequences, FiniteSets, TLC

(***************************************************************************)
(* Python string methods                                                   *)
(***************************************************************************)
UpperCase ==
    <<"A", "B", "C", "D", "E", "F", "G", "H", "I", "J", "K", "L", "M",
      "N", "O", "P", "Q", "R", "S", "T", "U", "V", "W", "X", "Y", "Z">>

LowerCase ==
    <<"a", "b", "c", "d", "e", "f", "g", "h", "i", "j", "k", "l", "m",
      "n", "o", "p", "q", "r", "s", "t", "u", "v", "w", "x", "y", "z">>

Digits ==
    <<"0", "1", "2", "3", "4", "5", "6", "7", "8", "9">>

Range(s) == {s[i] : i \in DOMAIN s}

\* str.lower() on one character
LowerChar(c) ==
    IF c \in Range(UpperCase)
    THEN LowerCase[CHOOSE i \in DOMAIN UpperCase : UpperCase[i] = c]
    ELSE c

\* str.lower()
RECURSIVE Lower(_)
Lower(s) ==
    IF s = <<>> THEN <<>> ELSE <<LowerChar(Head(s))>> \o Lower(Tail(s))

\* the characters str.split() and str.strip() treat as whitespace
IsSpace(c) == c \in {" ", "\t", "\n", "\r"}

\* str.isalnum() on one character
IsAlnum(c) == c \in Range(UpperCase) \cup Range(LowerCase) \cup Range(Digits)

\* s[a:b] with Python's clamping, a and b being 0-based slice positions
Slice(s, a, b) ==
    LET lo == IF a < 0 THEN 0 ELSE a
        hi == IF b > Len(s) THEN Len(s) ELSE b
    IN  IF hi <= lo THEN <<>> ELSE SubSeq(s, lo + 1, hi)

RECURSIVE LStrip(_)
LStrip(s) ==
    IF s # <<>> /\ IsSpace(Head(s)) THEN LStrip(Tail(s)) ELSE s

RECURSIVE RStrip(_)
RStrip(s) ==
    IF s # <<>> /\ IsSpace(s[Len(s)]) THEN RStrip(SubSeq(s, 1, Len(s) - 1)) ELSE s

\* str.strip()
Strip(s) == RStrip(LStrip(s))

\* str.startswith(prefix)
StartsWith(s, prefix) ==
    /\ Len(s) >= Len(prefix)
    /\ SubSeq(s, 1, Len(prefix)) = prefix

\* str.split(): the maximal runs of non-whitespace characters, in order
RECURSIVE SplitFrom(_, _, _)
SplitFrom(s, word, acc) ==
    IF s = <<>>
    THEN IF word = <<>> THEN acc ELSE Append(acc, word)
    ELSE IF IsSpace(Head(s))
         THEN SplitFrom(Tail(s), <<>>, IF word = <<>> THEN acc ELSE Append(acc, word))
         ELSE SplitFrom(Tail(s), Append(word, Head(s)), acc)

Split(s) == SplitFrom(s, <<>>, <<>>)

\* str.split(sep)[-1] for a one-character separator
RECURSIVE LastSegment(_, _)
LastSegment(s, sep) ==
    IF \E i \in DOMAIN s : s[i] = sep
    THEN LastSegment(Tail(s), sep)
    ELSE s

\* list.index(x): the first position (1-based) of x, 0 when list.index raises ValueError
IndexOf(words, x) ==
    IF \E i \in DOMAIN words : words[i] = x
    THEN CHOOSE i \in DOMAIN words : words[i] = x /\ \A j \in 1..(i - 1) : words[j] # x
    ELSE 0

\* sep.join(words)
RECURSIVE Join(_, _)
Join(sep, words) ==
    IF words = <<>> THEN <<>>
    ELSE IF Len(words) = 1 THEN words[1]
    ELSE words[1] \o sep \o Join(sep, Tail(words))

\* str.replace(old, new) for a one-character old
RECURSIVE Replace(_, _, _)
Replace(s, old, new) ==
    IF s = <<>> THEN <<>>
    ELSE (IF Head(s) = old THEN new ELSE <<Head(s)>>) \o Replace(Tail(s), old, new)

\* faulty variant: every character is kept
SanitizeKeepsAll(s) == s

\* ''.join(c for c in s if keep(c)) of generate_filename
RECURSIVE Sanitize(_)
Sanitize(s) ==
    IF s = <<>> THEN <<>>
    ELSE (IF IsAlnum(Head(s)) \/ Head(s) \in {"_", "."} THEN <<Head(s)>> ELSE <<>>)
         \o Sanitize(Tail(s))

\* the decimal digits of n, zero-padded on the left to at least width characters
RECURSIVE ZeroPad(_, _)
ZeroPad(n, width) ==
    IF width <= 1 /\ n < 10
    THEN <<Digits[n + 1]>>
    ELSE ZeroPad(n \div 10, width - 1) \o <<Digits[(n % 10) + 1]>>

\* datetime.strftime("%Y%m%d")
FormatDate(d) == ZeroPad(d.year, 4) \o ZeroPad(d.month, 2) \o ZeroPad(d.day, 2)

(***************************************************************************)
(* String literals                                                         *)
(***************************************************************************)

Q_Patient ==
    <<"S", "E", "L", "E", "C", "T", " ", "p", "a", "t", "i", "e", "n", "t", "_", "i", "d", ",", " ", "n", "a", "m", "e", " ", "F", "R", "O", "M", " ", "m", "e", "d", "i", "c", "a", "l", "_", "d", "b", ".", "p", "a", "t", "i", "e", "n", "t", "_", "d", "a", "t", "a">>

Q_Star ==
    <<"S", "E", "L", "E", "C", "T", " ", "*", " ", "F", "R", "O", "M", " ", "m", "e", "d", "i", "c", "a", "l", "_", "d", "b", ".", "p", "a", "t", "i", "e", "n", "t", "_", "d", "a", "t", "a">>

Q_Lower ==
    <<" ", " ", "s", "e", "l", "e", "c", "t", " ", "n", "a", "m", "e", " ", "f", "r", "o", "m", " ", "t">>

Q_NoFrom ==
    <<"S", "E", "L", "E", "C", "T", " ", "1">>

Q_FromLast ==
    <<"S", "E", "L", "E", "C", "T", " ", "a", " ", "F", "R", "O", "M">>

Q_Drop ==
    <<"D", "R", "O", "P", " ", "T", "A", "B", "L", "E", " ", "I", "F", " ", "E", "X", "I", "S", "T", "S", " ", "m", "e", "d", "i", "c", "a", "l", "_", "d", "b", ".", "p", "a", "t", "i", "e", "n", "t", "_", "d", "a", "t", "a">>

Q_Count ==
    <<"S", "E", "L", "E", "C", "T", " ", "C", "O", "U", "N", "T", "(", "*", ")", " ", "F", "R", "O", "M", " ", "t", " ", "W", "H", "E", "R", "E", " ", "a", "g", "e", " ", ">", " ", "3", "0">>

Q_Newline ==
    <<"S", "E", "L", "E", "C", "T", " ", "a", ",", "b", "\n", "F", "R", "O", "M", " ", "d", "b", ".", "s", ".", "t">>

Q_Describe ==
    <<"D", "E", "S", "C", "R", "I", "B", "E", " ", "m", "e", "d", "i", "c", "a", "l", "_", "d", "b", ".", "p", "a", "t", "i", "e", "n", "t", "_", "d", "a", "t", "a">>

Q_Insert ==
    <<"I", "N", "S", "E", "R", "T", " ", "I", "N", "T", "O", " ", "t", " ", "S", "E", "L", "E", "C", "T", " ", "*", " ", "F", "R", "O", "M", " ", "u">>

Q_CreateDb ==
    <<"\n", " ", "C", "R", "E", "A", "T", "E", " ", "D", "A", "T", "A", "B", "A", "S", "E", " ", "I", "F", " ", "N", "O", "T", " ", "E", "X", "I", "S", "T", "S", " ", "m", "e", "d", "i", "c", "a", "l", "_", "d", "b">>

Q_Long ==
    <<"S", "E", "L", "E", "C", "T", " ", "*", "*", "*", "*", "*", "*", "*", "*", "*", "*", "*", "*", "*", "*", "*", "*", "*", " ", "F", "R", "O", "M", " ", "d", "b", ".", "t", "-", "1", ";">>

W_from ==
    <<"f", "r", "o", "m">>

W_select ==
    <<"s", "e", "l", "e", "c", "t">>

W_unknown ==
    <<"u", "n", "k", "n", "o", "w", "n">>

W_all ==
    <<"a", "l", "l">>

Ext_csv ==
    <<".", "c", "s", "v">>

Expected_Patient ==
    <<"_", "p", "a", "t", "i", "e", "n", "t", "_", "d", "a", "t", "a", "_", "p", "a", "t", "i", "e", "n", "t", "_", "i", "d", "_", "n", "a", "m", "e">>

Actual_Patient ==
    <<"_", "p", "a", "t", "i", "e", "n", "t", "_", "d", "a", "t", "a", "_", "p", "a", "t", "i", "e", "n", "t", "_", "i", "d", "_", "n", "a", "m", "e", "_", "f", "r", "o", "m">>

F_ScanJpg ==
    <<"s", "c", "a", "n", ".", "j", "p", "g">>

F_ScanJPG ==
    <<"S", "C", "A", "N", ".", "J", "P", "G">>

F_XrayPng ==
    <<"x", "r", "a", "y", ".", "p", "n", "g">>

F_Gif ==
    <<"a", ".", "g", "i", "f">>

F_Jpeg ==
    <<"p", "h", "o", "t", "o", ".", "j", "p", "e", "g">>

F_Svg ==
    <<"p", "i", "c", ".", "s", "v", "g">>

F_Csv ==
    <<"d", "a", "t", "a", ".", "c", "s", "v">>

F_Txt ==
    <<"n", "o", "t", "e", "s", ".", "t", "x", "t">>

F_Json ==
    <<"c", "f", "g", ".", "j", "s", "o", "n">>

F_Pdf ==
    <<"r", "e", "p", "o", "r", "t", ".", "p", "d", "f">>

F_Xyz ==
    <<"a", "r", "c", "h", "i", "v", "e", ".", "x", "y", "z">>

F_NoExt ==
    <<"R", "E", "A", "D", "M", "E">>

F_DotJpg ==
    <<".", "j", "p", "g">>

F_PngGz ==
    <<"i", "m", "g", ".", "p", "n", "g", ".", "g", "z">>

F_DirPng ==
    <<"d", "i", "r", ".", "p", "n", "g", "/", "f", "i", "l", "e">>

F_CsvUpper ==
    <<"D", "A", "T", "A", ".", "C", "S", "V">>

E_jpg ==
    <<".", "j", "p", "g">>

E_jpeg ==
    <<".", "j", "p", "e", "g">>

E_png ==
    <<".", "p", "n", "g">>

E_gif ==
    <<".", "g", "i", "f">>

E_svg ==
    <<".", "s", "v", "g">>

E_csv ==
    <<".", "c", "s", "v">>

E_txt ==
    <<".", "t", "x", "t">>

E_json ==
    <<".", "j", "s", "o", "n">>

E_pdf ==
    <<".", "p", "d", "f">>

E_gz ==
    <<".", "g", "z">>

M_jpeg ==
    <<"i", "m", "a", "g", "e", "/", "j", "p", "e", "g">>

M_png ==
    <<"i", "m", "a", "g", "e", "/", "p", "n", "g">>

M_gif ==
    <<"i", "m", "a", "g", "e", "/", "g", "i", "f">>

M_svg ==
    <<"i", "m", "a", "g", "e", "/", "s", "v", "g", "+", "x", "m", "l">>

M_csv ==
    <<"t", "e", "x", "t", "/", "c", "s", "v">>

M_txt ==
    <<"t", "e", "x", "t", "/", "p", "l", "a", "i", "n">>

M_json ==
    <<"a", "p", "p", "l", "i", "c", "a", "t", "i", "o", "n", "/", "j", "s", "o", "n">>

M_pdf ==
    <<"a", "p", "p", "l", "i", "c", "a", "t", "i", "o", "n", "/", "p", "d", "f">>

P_image ==
    <<"i", "m", "a", "g", "e", "/">>

Code_404 ==
    <<"4", "0", "4">>

Code_403 ==
    <<"4", "0", "3">>

Code_NoSuchBucket ==
    <<"N", "o", "S", "u", "c", "h", "B", "u", "c", "k", "e", "t">>

Code_AccessDenied ==
    <<"A", "c", "c", "e", "s", "s", "D", "e", "n", "i", "e", "d">>

Code_BucketNotEmpty ==
    <<"B", "u", "c", "k", "e", "t", "N", "o", "t", "E", "m", "p", "t", "y">>

Code_BucketAlreadyOwnedByYou ==
    <<"B", "u", "c", "k", "e", "t", "A", "l", "r", "e", "a", "d", "y", "O", "w", "n", "e", "d", "B", "y", "Y", "o", "u">>

Code_BucketAlreadyExists ==
    <<"B", "u", "c", "k", "e", "t", "A", "l", "r", "e", "a", "d", "y", "E", "x", "i", "s", "t", "s">>

(***************************************************************************)
(* utils/helpers.py                                                        *)
(***************************************************************************)
\* action[:50]
ActionMax == 50

\* faulty variant: two words after 'select' instead of three
ActionWordsTwo(words, i) == Slice(words, i, i + 2)

\* words[select_index + 1:select_index + 4], i being the 1-based position of 'select'
ActionWords(words, i) == Slice(words, i, i + 3)

generate_filename(q, now) ==
    LET current_date == FormatDate(now)
        words == Split(Lower(q))
        from_index == IndexOf(words, W_from)
        table == IF from_index = 0 \/ from_index + 1 > Len(words)
                 THEN W_unknown
                 ELSE LastSegment(words[from_index + 1], ".")
        select_index == IndexOf(words, W_select)
        action == IF select_index = 0
                  THEN W_unknown
                  ELSE Replace(Replace(Join(<<"_">>, ActionWords(words, select_index)),
                                       "*", W_all), ",", <<>>)
        filename == current_date \o <<"_">> \o table \o <<"_">> \o Slice(action, 0, ActionMax)
    IN  Sanitize(filename)

\* str.rfind(c): the last position (1-based) of c, 0 when absent
RFind(s, c) ==
    IF \E i \in DOMAIN s : s[i] = c
    THEN CHOOSE i \in DOMAIN s : s[i] = c /\ \A j \in (i + 1)..Len(s) : s[j] # c
    ELSE 0

\* os.path.splitext: the extension starts at the last dot of the last path
\* component, unless that component has only dots before it
SplitExt(p) ==
    LET sep == RFind(p, "/")
        dot == RFind(p, ".")
    IN  IF dot > sep /\ \E k \in (sep + 1)..(dot - 1) : p[k] # "."
        THEN [root |-> SubSeq(p, 1, dot - 1), ext |-> SubSeq(p, dot, Len(p))]
        ELSE [root |-> p, ext |-> <<>>]

\* the entries of mimetypes.types_map the filenames of the model can hit
TypesMap ==
    <<  <<E_jpg, M_jpeg>>, <<E_jpeg, M_jpeg>>, <<E_png, M_png>>, <<E_gif, M_gif>>,
        <<E_svg, M_svg>>, <<E_csv, M_csv>>, <<E_txt, M_txt>>, <<E_json, M_json>>,
        <<E_pdf, M_pdf>> >>

\* mimetypes.encodings_map
EncodingsMap == {E_gz}

\* mimetypes.guess_type(filename)[0]; <<>> stands for None
GuessType(url) ==
    LET first == SplitExt(url)
        inner == IF first.ext \in EncodingsMap THEN SplitExt(first.root) ELSE first
        ext == Lower(inner.ext)
    IN  IF \E i \in DOMAIN TypesMap : TypesMap[i][1] = ext
        THEN TypesMap[CHOOSE i \in DOMAIN TypesMap : TypesMap[i][1] = ext][2]
        ELSE <<>>

\* faulty variant: images are recognised by the .jpg/.jpeg suffix alone, as upload_file does
DefaultBucketKeyBySuffix(filename) ==
    IF SplitExt(Lower(filename)).ext \in {E_jpg, E_jpeg} THEN "images_bucket" ELSE "data_bucket"

\* the key of config_data that get_default_bucket reads
DefaultBucketKey(filename) ==
    LET file_extension == SplitExt(Lower(filename)).ext
        mime_type == GuessType(filename)
    IN  IF mime_type # <<>> /\ StartsWith(mime_type, P_image)
        THEN "images_bucket"
        ELSE IF file_extension \in {E_csv, E_txt, E_json}
             THEN "data_bucket"
             ELSE "data_bucket"

get_default_bucket(filename, config_data) == config_data[DefaultBucketKey(filename)]

(***************************************************************************)
(* State                                                                   *)
(***************************************************************************)
VARIABLES
    h_pc,        \* helpers: the call in progress, or where it returned
    h_query,     \* generate_filename: query
    h_now,       \* generate_filename: datetime.datetime.now()
    h_name,      \* generate_filename: the returned filename
    h_filename,  \* get_default_bucket: filename
    h_config,    \* get_default_bucket: config_data
    h_key,       \* get_default_bucket: the key of config_data that was read
    h_bucket,    \* get_default_bucket: the returned bucket name
    aq_pc,       \* run_athena_query: the statement about to run, "done" or "raised"
    aq_query,    \* run_athena_query: query
    aq_now,      \* the date generate_filename reads while the query is run
    execution,   \* Athena: the state of the execution the query started, "NONE" before
    state,       \* wait_for_query_to_complete: state, as the last poll reported it
    query_results, \* run_athena_query: what get_query_results returned
    stored_key,  \* S3: the Key of the copy store_query_results made
    nStart,      \* requests issued: start_query_execution
    nPoll,       \* requests issued: get_query_execution
    nFetch,      \* requests issued: get_query_results
    nStore,      \* requests issued: copy_object
    aq_thrown,   \* the ClientError a request of this run raised
    aq_caller,   \* the ClientError that left run_athena_query
    buckets,     \* S3: the buckets of the caller's account, as [name, region]
    b_pc,        \* s3_module: the statement about to run, "idle" between calls
    cb_name,     \* create_bucket: bucket_name
    cb_region,   \* create_bucket: region
    cb_creates,  \* create_bucket: create requests issued by the call in progress
    create_request, \* S3: the parameters of the last create_bucket request
    prev_call,   \* the call that ended before the last one
    last_call,   \* the last call that ended
    dm_names,    \* delete_multiple_buckets: bucket_names
    dm_i,        \* delete_multiple_buckets: names of bucket_names already handled
    results,     \* delete_multiple_buckets: results
    attempts,    \* the names delete_bucket was called with, in call order
    db_before,   \* delete_bucket: the buckets when the last call of it began
    db_outcome,  \* delete_bucket: how the last call of it ended
    object_versions, \* S3: the buckets that hold an object version or a delete marker
    db_requests, \* delete_bucket: the requests the last call of it issued, in order
    r_pc,        \* two concurrent create_bucket calls: the statement each is about to run
    r_name,      \* two concurrent create_bucket calls: bucket_name
    r_region,    \* two concurrent create_bucket calls: region
    r_creates,   \* two concurrent create_bucket calls: create requests each issued
    r_raised,    \* two concurrent create_bucket calls: the ClientError that left each
    sc_pc,       \* set_storage_class: the statement about to run, or how it ended
    sc_storage_class, \* set_storage_class: the storage_class argument as typed
    sc_filename, \* set_storage_class: filename
    sc_config,   \* set_storage_class: config.json, "json" or "missing"
    sc_objects,  \* S3: the storage class of each object of the data bucket
    sc_before,   \* S3: sc_objects when the command began
    sc_copies,   \* requests issued: copy_object
    command,     \* manage.py: the command that runs
    c_args,      \* manage.py: the arguments of the command
    c_pc,        \* manage.py: the statement about to run, or how the command ended
    c_exit,      \* manage.py: the exit status, -1 while the command runs
    config_json, \* the file config.json
    config_before, \* config.json when the command began
    config_data, \* the dictionary load_config returned
    load_calls,  \* calls of load_config the command made
    c_writes,    \* calls of save_config the command made
    c_log,       \* the service requests the command issued, in order
    applied,     \* s3_setup: the provisioning steps applied in the account, in order
    c_results,   \* delete_bucket_command: results
    c_i,         \* delete_bucket_command: results already handled
    c_bucket,    \* upload, download: bucket
    lg_before,   \* the two create_bucket functions: the account's buckets before the calls
    lg_after,    \* the two create_bucket functions: the buckets the first call left
    po_pc,       \* the four policy functions: the call about to be made, or how the calls ended
    po_order,    \* the four policy functions: the order they are called in
    po_i,        \* the four policy functions: calls that returned
    po_bucket,   \* S3: the bucket the four functions are called for, with its four settings
    po_before,   \* S3: po_bucket before the first call
    pt_pc,       \* performance_test_select_query: the statement about to run, or how the call ended
    pt_iterations, \* performance_test_select_query: iterations
    pt_i,        \* performance_test_select_query: iterations completed
    pt_execution, \* Athena: the state of the execution the current iteration started
    pt_status,   \* performance_test_select_query: status, as the last poll reported it
    pt_polls,    \* requests issued by the current iteration: get_query_execution
    pt_starts,   \* requests issued: start_query_execution
    pt_total_time, \* performance_test_select_query: total_execution_time
    pt_total_bytes, \* performance_test_select_query: total_scanned_bytes
    pt_log,      \* the iterations that ended, each with its final status, time and scanned bytes
    pt_result,   \* performance_test_select_query: the returned averages
    ct_pc,       \* create_athena_database_and_table: the statement about to run, or how the call ended
    ct_config,   \* create_athena_database_and_table: the file config.json
    ct_i,        \* create_athena_database_and_table: calls of run_athena_query that returned
    ct_log,      \* Athena: the executions the call started, each with its statement and state
    rv_pc,       \* restore_version: the statement about to run, or how the command ended
    rv_version_id, \* restore_version: version_id
    rv_versions, \* S3: the entries list_object_versions lists under Versions
    rv_markers,  \* S3: the delete markers list_object_versions lists, in order
    rv_listed,   \* restore_version: versions, None before the request returned
    rv_requests, \* restore_version: the requests issued, in order
    rv_echo,     \* restore_version: the messages echoed, in order
    rv_config    \* restore_version: the file config.json

helperVars == <<h_pc, h_query, h_now, h_name, h_filename, h_config, h_key, h_bucket>>

athenaVars ==
    <<aq_pc, aq_query, aq_now, execution, state, query_results, stored_key,
      nStart, nPoll, nFetch, nStore, aq_thrown, aq_caller>>

\* the account's buckets and their contents
serviceVars == <<buckets, object_versions>>

\* the calls of create_bucket and delete_multiple_buckets made one after the other
callVars ==
    <<b_pc, cb_name, cb_region, cb_creates, create_request, prev_call, last_call,
      dm_names, dm_i, results, attempts, db_before, db_outcome, db_requests>>

bucketVars == <<serviceVars, callVars>>

raceVars == <<r_pc, r_name, r_region, r_creates, r_raised>>

classVars ==
    <<sc_pc, sc_storage_class, sc_filename, sc_config, sc_objects, sc_before, sc_copies>>

commandVars ==
    <<command, c_args, c_pc, c_exit, config_json, config_before, config_data, load_calls,
      c_writes, c_log, applied, c_results, c_i, c_bucket>>

legacyVars ==
    <<lg_before, lg_after>>

policyVars ==
    <<po_pc, po_order, po_i, po_bucket, po_before>>

perfVars ==
    <<pt_pc, pt_iterations, pt_i, pt_execution, pt_status, pt_polls, pt_starts, pt_total_time, pt_total_bytes, pt_log, pt_result>>

tableVars ==
    <<ct_pc, ct_config, ct_i, ct_log>>

restoreVars ==
    <<rv_pc, rv_version_id, rv_versions, rv_markers, rv_listed, rv_requests, rv_echo,
      rv_config>>

vars ==
    <<helperVars, athenaVars, bucketVars, raceVars, classVars, commandVars, legacyVars, policyVars, perfVars, tableVars,
      restoreVars>>

(***************************************************************************)
(* Inputs of the helper functions                                          *)
(***************************************************************************)
FilenameQueries ==
    {Q_Patient, Q_Star, Q_Lower, Q_NoFrom, Q_FromLast, Q_Drop, Q_Count, Q_Newline,
     Q_Describe, Q_Insert, Q_CreateDb, Q_Long}

Dates ==
    {[year |-> 2024, month |-> 10, day |-> 13], [year |-> 2026, month |-> 1, day |-> 5]}

Filenames ==
    {F_ScanJpg, F_ScanJPG, F_XrayPng, F_Gif, F_Jpeg, F_Svg, F_Csv, F_Txt, F_Json, F_Pdf,
     F_Xyz, F_NoExt, F_DotJpg, F_PngGz, F_DirPng, F_CsvUpper}

ConfigKeys == {"images_bucket", "data_bucket", "athena_output_bucket"}

\* config.json as s3_setup writes it: one bucket name per role
Configs ==
    {[k \in ConfigKeys |-> b[k]] :
        b \in {[images_bucket |-> "medical-images-1", data_bucket |-> "patient-data-1",
                athena_output_bucket |-> "athena-query-results-1"],
               [images_bucket |-> "medical-images-2", data_bucket |-> "patient-data-2",
                athena_output_bucket |-> "athena-query-results-2"]}}

NoDate == [year |-> 0, month |-> 0, day |-> 0]
NoConfig == [k \in ConfigKeys |-> "None"]

HelpersOff ==
    /\ h_pc = "off"
    /\ h_query = <<>> /\ h_now = NoDate /\ h_name = <<>>
    /\ h_filename = <<>> /\ h_config = NoConfig /\ h_key = "" /\ h_bucket = ""

NoError == [op |-> "none", code |-> "none"]
NoResults == [returned |-> FALSE, rows |-> 0]

AthenaOff ==
    /\ aq_pc = "off" /\ aq_query = <<>> /\ aq_now = NoDate
    /\ execution = "NONE" /\ state = "NONE"
    /\ query_results = NoResults /\ stored_key = <<>>
    /\ nStart = 0 /\ nPoll = 0 /\ nFetch = 0 /\ nStore = 0
    /\ aq_thrown = NoError /\ aq_caller = NoError

NoS3Error == [op |-> "none", code |-> <<>>]
NoCall == [kind |-> "none", name |-> "", region |-> "", raised |-> NoS3Error, creates |-> 0]
NoRequest == [Bucket |-> "", LocationConstraint |-> ""]
NoOutcome == [name |-> "", over |-> FALSE, raised |-> FALSE, result |-> <<>>]

CallsOff ==
    /\ b_pc = "off"
    /\ cb_name = "" /\ cb_region = "" /\ cb_creates = 0 /\ create_request = NoRequest
    /\ prev_call = NoCall /\ last_call = NoCall
    /\ dm_names = <<>> /\ dm_i = 0 /\ results = <<>> /\ attempts = <<>>
    /\ db_before = {} /\ db_outcome = NoOutcome /\ db_requests = <<>>

BucketsOff ==
    /\ buckets = {} /\ object_versions = {}
    /\ CallsOff

\* the two concurrent callers of create_bucket
Procs == {1, 2}

RaceOff ==
    /\ r_pc = [p \in Procs |-> "off"] /\ r_name = "" /\ r_region = ""
    /\ r_creates = [p \in Procs |-> 0] /\ r_raised = [p \in Procs |-> NoS3Error]

ClassOff ==
    /\ sc_pc = "off" /\ sc_storage_class = "" /\ sc_filename = "" /\ sc_config = ""
    /\ sc_objects = <<>> /\ sc_before = <<>> /\ sc_copies = 0

\* a JSON null of config.json, None once loaded; and the mark of a key that the
\* JSON object has not
Null == "null"
Absent == "absent"
EmptyConfig == [k \in ConfigKeys |-> Absent]

\* config.json: not there ("missing"), not JSON ("malformed"), or a JSON object
NoConfigFile == [file |-> "missing", data |-> EmptyConfig]
NoArgs == [bucket_names |-> <<>>, filename |-> <<>>, names |-> EmptyConfig]

CommandsOff ==
    /\ command = "off" /\ c_args = NoArgs /\ c_pc = "off" /\ c_exit = -1
    /\ config_json = NoConfigFile /\ config_before = NoConfigFile
    /\ config_data = EmptyConfig
    /\ load_calls = 0 /\ c_writes = 0 /\ c_log = <<>> /\ applied = <<>>
    /\ c_results = <<>> /\ c_i = 0 /\ c_bucket = ""

(***************************************************************************)
(* Specification of the helper functions: one call of generate_filename or *)
(* of get_default_bucket on an input drawn from the sets above             *)
(***************************************************************************)
LegacyOff ==
    /\ lg_before = {} /\ lg_after = {}

NoBucket ==
    [name |-> "", versioning |-> "", lifecycle |-> <<>>, policy |-> <<>>, encryption |-> ""]

PolicyOff ==
    /\ po_pc = "off" /\ po_order = <<>> /\ po_i = 0
    /\ po_bucket = NoBucket /\ po_before = NoBucket

NoAverages == [average_execution_time |-> [num |-> 0, den |-> 0],
               average_scanned_bytes |-> [num |-> 0, den |-> 0]]

PerfOff ==
    /\ pt_pc = "off" /\ pt_iterations = 0 /\ pt_i = 0
    /\ pt_execution = "NONE" /\ pt_status = "NONE" /\ pt_polls = 0 /\ pt_starts = 0
    /\ pt_total_time = 0 /\ pt_total_bytes = 0 /\ pt_log = <<>>
    /\ pt_result = NoAverages

TableOff ==
    /\ ct_pc = "off" /\ ct_config = NoConfigFile /\ ct_i = 0 /\ ct_log = <<>>

RestoreOff ==
    /\ rv_pc = "off" /\ rv_version_id = "" /\ rv_versions = {} /\ rv_markers = <<>>
    /\ rv_listed = FALSE /\ rv_requests = <<>> /\ rv_echo = <<>>
    /\ rv_config = NoConfigFile

InitHelpers ==
    /\ AthenaOff /\ BucketsOff /\ RaceOff /\ ClassOff /\ CommandsOff
    /\ LegacyOff /\ PolicyOff /\ PerfOff /\ TableOff /\ RestoreOff
    /\ h_name = <<>> /\ h_key = "" /\ h_bucket = ""
    /\ \/ /\ h_pc = "generate_filename"
          /\ h_query \in FilenameQueries /\ h_now \in Dates
          /\ h_filename = <<>> /\ h_config = NoConfig
       \/ /\ h_pc = "get_default_bucket"
          /\ h_filename \in Filenames /\ h_config \in Configs
          /\ h_query = <<>> /\ h_now = NoDate

GenerateFilename ==
    /\ h_pc = "generate_filename"
    /\ h_name' = generate_filename(h_query, h_now)
    /\ h_pc' = "returned_filename"
    /\ UNCHANGED <<h_query, h_now, h_filename, h_config, h_key, h_bucket>>
    /\ UNCHANGED <<athenaVars, bucketVars, raceVars, classVars, commandVars,
                   legacyVars, policyVars, perfVars, tableVars, restoreVars>>

GetDefaultBucket ==
    /\ h_pc = "get_default_bucket"
    /\ h_key' = DefaultBucketKey(h_filename)
    /\ h_bucket' = get_default_bucket(h_filename, h_config)
    /\ h_pc' = "returned_bucket"
    /\ UNCHANGED <<h_query, h_now, h_name, h_filename, h_config>>
    /\ UNCHANGED <<athenaVars, bucketVars, raceVars, classVars, commandVars,
                   legacyVars, policyVars, perfVars, tableVars, restoreVars>>

NextHelpers == GenerateFilename \/ GetDefaultBucket

SpecHelpers == InitHelpers /\ [][NextHelpers]_vars

(***************************************************************************)
(* athena_module/athena_operations.py: run_athena_query                    *)
(***************************************************************************)
\* the statements run_athena_query is given
AthenaQueries == {Q_Patient, Q_Star, Q_Lower, Q_Drop, Q_Insert, Q_CreateDb}

\* the states Athena reports for an execution
ExecutionStates == {"QUEUED", "RUNNING", "SUCCEEDED", "FAILED", "CANCELLED"}

\* the error codes of the ClientErrors a request can raise whatever the state is
ServiceErrorCodes == {"ThrottlingException", "AccessDeniedException"}

\* the most polls of one execution the model follows
MaxPolls == 3

\* the most rows get_query_results returns
MaxRows == 2

\* query.strip().lower().startswith('select')
IsSelect(q) == StartsWith(Lower(Strip(q)), W_select)

\* faulty variant: the handler starts the query again instead of re-raising the error
ExceptClientErrorRetry(e) == [pc |-> "start", caller |-> NoError]

\* faulty variant: the handler swallows the error instead of re-raising it
ExceptClientErrorSwallow(e) == [pc |-> "done", caller |-> NoError]

\* except ClientError as e: print(...); raise
ExceptClientError(e) == [pc |-> "raised", caller |-> e]

Raise(e) ==
    /\ aq_thrown' = e
    /\ aq_pc' = ExceptClientError(e).pc
    /\ aq_caller' = ExceptClientError(e).caller

\* athena_client.start_query_execution(...)
StartQueryExecution ==
    /\ aq_pc = "start"
    /\ nStart' = nStart + 1
    /\ \/ /\ execution' = "QUEUED"
          /\ aq_pc' = "poll"
          /\ UNCHANGED <<aq_thrown, aq_caller>>
       \/ /\ \E c \in ServiceErrorCodes \cup {"InvalidRequestException"} :
                Raise([op |-> "start_query_execution", code |-> c])
          /\ UNCHANGED execution
    /\ UNCHANGED <<aq_query, aq_now, state, query_results, stored_key, nPoll, nFetch, nStore>>
    /\ UNCHANGED <<helperVars, bucketVars, raceVars, classVars, commandVars,
                   legacyVars, policyVars, perfVars, tableVars, restoreVars>>

\* Athena runs the execution: QUEUED, RUNNING, then one of the three final states
AthenaAdvance ==
    /\ execution \in {"QUEUED", "RUNNING"}
    /\ execution' \in (IF execution = "QUEUED" THEN {"RUNNING"} ELSE {})
                      \cup {"SUCCEEDED", "FAILED", "CANCELLED"}
    /\ UNCHANGED <<aq_pc, aq_query, aq_now, state, query_results, stored_key,
                   nStart, nPoll, nFetch, nStore, aq_thrown, aq_caller>>
    /\ UNCHANGED <<helperVars, bucketVars, raceVars, classVars, commandVars,
                   legacyVars, policyVars, perfVars, tableVars, restoreVars>>

\* wait_for_query_to_complete: status = athena_client.get_query_execution(...)
GetQueryExecution ==
    /\ aq_pc = "poll"
    /\ nPoll < MaxPolls
    /\ nPoll' = nPoll + 1
    /\ \/ /\ state' = execution
          /\ aq_pc' = "check"
          /\ UNCHANGED <<aq_thrown, aq_caller>>
       \/ /\ \E c \in ServiceErrorCodes :
                Raise([op |-> "get_query_execution", code |-> c])
          /\ UNCHANGED state
    /\ UNCHANGED <<aq_query, aq_now, execution, query_results, stored_key,
                   nStart, nFetch, nStore>>
    /\ UNCHANGED <<helperVars, bucketVars, raceVars, classVars, commandVars,
                   legacyVars, policyVars, perfVars, tableVars, restoreVars>>

\* faulty variant: the loop does not treat CANCELLED as final
CheckStateNoCancelled ==
    /\ aq_pc = "check"
    /\ aq_pc' = IF state \in {"SUCCEEDED", "FAILED"} THEN "waited" ELSE "poll"
    /\ UNCHANGED <<aq_query, aq_now, execution, state, query_results, stored_key,
                   nStart, nPoll, nFetch, nStore, aq_thrown, aq_caller>>
    /\ UNCHANGED <<helperVars, bucketVars, raceVars, classVars, commandVars,
                   legacyVars, policyVars, perfVars, tableVars, restoreVars>>

\* faulty variant: the loop has no break, it polls again after every report
CheckStateNeverBreaks ==
    /\ aq_pc = "check"
    /\ aq_pc' = "poll"
    /\ UNCHANGED <<aq_query, aq_now, execution, state, query_results, stored_key,
                   nStart, nPoll, nFetch, nStore, aq_thrown, aq_caller>>
    /\ UNCHANGED <<helperVars, bucketVars, raceVars, classVars, commandVars,
                   legacyVars, policyVars, perfVars, tableVars, restoreVars>>

\* wait_for_query_to_complete: break on a final state, else sleep and poll again
CheckState ==
    /\ aq_pc = "check"
    /\ aq_pc' = IF state \in {"SUCCEEDED", "FAILED", "CANCELLED"} THEN "waited" ELSE "poll"
    /\ UNCHANGED <<aq_query, aq_now, execution, state, query_results, stored_key,
                   nStart, nPoll, nFetch, nStore, aq_thrown, aq_caller>>
    /\ UNCHANGED <<helperVars, bucketVars, raceVars, classVars, commandVars,
                   legacyVars, policyVars, perfVars, tableVars, restoreVars>>

\* faulty variant: the results are fetched whatever the statement is
BranchAlwaysFetch ==
    /\ aq_pc = "waited"
    /\ aq_pc' = "fetch"
    /\ UNCHANGED <<aq_query, aq_now, execution, state, query_results, stored_key,
                   nStart, nPoll, nFetch, nStore, aq_thrown, aq_caller>>
    /\ UNCHANGED <<helperVars, bucketVars, raceVars, classVars, commandVars,
                   legacyVars, policyVars, perfVars, tableVars, restoreVars>>

\* run_athena_query: if query.strip().lower().startswith('select'): ... else: ...
BranchOnSelect ==
    /\ aq_pc = "waited"
    /\ aq_pc' = IF IsSelect(aq_query) THEN "fetch" ELSE "done"
    /\ UNCHANGED <<aq_query, aq_now, execution, state, query_results, stored_key,
                   nStart, nPoll, nFetch, nStore, aq_thrown, aq_caller>>
    /\ UNCHANGED <<helperVars, bucketVars, raceVars, classVars, commandVars,
                   legacyVars, policyVars, perfVars, tableVars, restoreVars>>

\* faulty variant: the results are stored also when the list is empty
AfterResultsAlwaysStore(rows) == "store"

\* run_athena_query: if query_results: ... else: ...
AfterResults(rows) == IF rows > 0 THEN "store" ELSE "done"

\* get_query_results: Athena returns the rows of an execution that SUCCEEDED and
\* rejects the request for one that did not
GetQueryResults ==
    /\ aq_pc = "fetch"
    /\ nFetch' = nFetch + 1
    /\ \/ /\ execution = "SUCCEEDED"
          /\ \E rows \in 0..MaxRows :
                /\ query_results' = [returned |-> TRUE, rows |-> rows]
                /\ aq_pc' = AfterResults(rows)
          /\ UNCHANGED <<aq_thrown, aq_caller>>
       \/ /\ \E c \in (IF execution = "SUCCEEDED" THEN ServiceErrorCodes
                                                  ELSE {"InvalidRequestException"}) :
                Raise([op |-> "get_query_results", code |-> c])
          /\ UNCHANGED query_results
    /\ UNCHANGED <<aq_query, aq_now, execution, state, stored_key, nStart, nPoll, nStore>>
    /\ UNCHANGED <<helperVars, bucketVars, raceVars, classVars, commandVars,
                   legacyVars, policyVars, perfVars, tableVars, restoreVars>>

\* file_name = generate_filename(query); store_query_results(...): s3_client.copy_object
StoreQueryResults ==
    /\ aq_pc = "store"
    /\ nStore' = nStore + 1
    /\ \/ /\ \E file_name \in {generate_filename(aq_query, aq_now)} :
                stored_key' = file_name \o Ext_csv
          /\ aq_pc' = "done"
          /\ UNCHANGED <<aq_thrown, aq_caller>>
       \/ /\ \E c \in ServiceErrorCodes :
                Raise([op |-> "copy_object", code |-> c])
          /\ UNCHANGED stored_key
    /\ UNCHANGED <<aq_query, aq_now, execution, state, query_results, nStart, nPoll, nFetch>>
    /\ UNCHANGED <<helperVars, bucketVars, raceVars, classVars, commandVars,
                   legacyVars, policyVars, perfVars, tableVars, restoreVars>>

InitAthena ==
    /\ HelpersOff /\ BucketsOff /\ RaceOff /\ ClassOff /\ CommandsOff
    /\ LegacyOff /\ PolicyOff /\ PerfOff /\ TableOff /\ RestoreOff
    /\ aq_pc = "start"
    /\ aq_query \in AthenaQueries
    /\ aq_now \in Dates
    /\ execution = "NONE" /\ state = "NONE"
    /\ query_results = NoResults /\ stored_key = <<>>
    /\ nStart = 0 /\ nPoll = 0 /\ nFetch = 0 /\ nStore = 0
    /\ aq_thrown = NoError /\ aq_caller = NoError

\* the statements of run_athena_query, in the one thread that runs them
Runner ==
    \/ StartQueryExecution
    \/ GetQueryExecution
    \/ CheckState
    \/ BranchOnSelect
    \/ GetQueryResults
    \/ StoreQueryResults

NextAthena == Runner \/ AthenaAdvance

SpecAthena == InitAthena /\ [][NextAthena]_vars

\* the loop of wait_for_query_to_complete
WaitLoop == GetQueryExecution \/ CheckState

\* the thread that runs the loop keeps running: a step of the loop that can run does run
FairSpecAthena == SpecAthena /\ WF_vars(WaitLoop)

(***************************************************************************)
(* s3_module/s3_setup.py: create_bucket, delete_bucket,                    *)
(* delete_multiple_buckets                                                 *)
(***************************************************************************)
\* the bucket names the calls are made with; OwnNames are free or the caller's,
\* ForeignNames belong to buckets of another account that the caller has no
\* access to
OwnNames == {"medical-images-1", "patient-data-1"}
ForeignNames == {"athena-query-results-9"}

\* the name of a bucket of another account that lets the caller list it
SharedNames == {"open-data-bucket"}

BucketNames == OwnNames \cup ForeignNames

Regions == {"us-east-1", "eu-west-1"}

\* the most names one delete_multiple_buckets call is given
MaxBatch == 2

RECURSIVE SeqsUpTo(_, _)
SeqsUpTo(S, n) ==
    IF n = 0 THEN {<<>>}
    ELSE SeqsUpTo(S, n - 1) \cup {Append(s, x) : s \in {t \in SeqsUpTo(S, n - 1) : Len(t) = n - 1}, x \in S}

Owned(name) == \E b \in buckets : b.name = name

\* int(s) for a string of decimal digits
RECURSIVE ParseInt(_)
ParseInt(s) ==
    IF s = <<>> THEN 0
    ELSE ParseInt(SubSeq(s, 1, Len(s) - 1)) * 10
         + ((CHOOSE i \in DOMAIN Digits : Digits[i] = s[Len(s)]) - 1)

\* S3 head_bucket: succeeds on a bucket the caller may access (its own, or one
\* another account shares), else a ClientError whose code is the HTTP status
HeadBucketResponse(name) ==
    IF Owned(name) \/ name \in SharedNames THEN [error |-> FALSE, code |-> <<>>]
    ELSE IF name \in ForeignNames THEN [error |-> TRUE, code |-> Code_403]
    ELSE [error |-> TRUE, code |-> Code_404]

\* S3 create_bucket: creates a free name; a name of the caller's is accepted again
\* in us-east-1 and refused elsewhere; a name of another account is refused
CreateBucketResponse(name, region) ==
    IF name \in ForeignNames \cup SharedNames
    THEN [error |-> TRUE, code |-> Code_BucketAlreadyExists]
    ELSE IF Owned(name) /\ region # "us-east-1"
         THEN [error |-> TRUE, code |-> Code_BucketAlreadyOwnedByYou]
         ELSE [error |-> FALSE, code |-> <<>>]

\* a call ends: it becomes the last call
EndCall(call) ==
    /\ prev_call' = last_call
    /\ last_call' = call
    /\ b_pc' = "idle"

\* a caller (the setup command, or a second run of it) calls create_bucket
CallCreateBucket ==
    /\ b_pc = "idle"
    /\ \E name \in BucketNames, region \in Regions :
          /\ cb_name' = name
          /\ cb_region' = region
    /\ cb_creates' = 0
    /\ b_pc' = "head_bucket"
    /\ dm_names' = <<>> /\ dm_i' = 0 /\ results' = <<>> /\ attempts' = <<>>
    /\ db_before' = {} /\ db_outcome' = NoOutcome /\ db_requests' = <<>>
    /\ UNCHANGED <<serviceVars, create_request, prev_call, last_call>>
    /\ UNCHANGED <<helperVars, athenaVars, raceVars, classVars, commandVars,
                   legacyVars, policyVars, perfVars, tableVars, restoreVars>>

\* faulty variant: the create request is issued whatever the existence check answered
IssuesCreateAlways(response) == TRUE

\* create_bucket: except ClientError as e: if int(e.response['Error']['Code']) == 404
IssuesCreate(response) == response.error /\ ParseInt(response.code) = 404

\* create_bucket: s3_client.head_bucket(Bucket=bucket_name) and the handler's test
HeadBucket ==
    /\ b_pc = "head_bucket"
    /\ LET response == HeadBucketResponse(cb_name)
       IN  IF IssuesCreate(response)
           THEN /\ b_pc' = "create_bucket"
                /\ UNCHANGED <<prev_call, last_call>>
           ELSE EndCall([kind |-> "create_bucket", name |-> cb_name, region |-> cb_region,
                         raised |-> IF response.error
                                    THEN [op |-> "head_bucket", code |-> response.code]
                                    ELSE NoS3Error,
                         creates |-> cb_creates])
    /\ UNCHANGED <<serviceVars, cb_name, cb_region, cb_creates, create_request,
                   dm_names, dm_i, results, attempts, db_before, db_outcome, db_requests>>
    /\ UNCHANGED <<helperVars, athenaVars, raceVars, classVars, commandVars,
                   legacyVars, policyVars, perfVars, tableVars, restoreVars>>

\* faulty variant: the location constraint is sent for every region
CreateRequestAlwaysConstraint(name, region) ==
    [Bucket |-> name, LocationConstraint |-> region]

\* create_bucket: the request the region asks for
CreateRequest(name, region) ==
    IF region = "us-east-1"
    THEN [Bucket |-> name, LocationConstraint |-> ""]
    ELSE [Bucket |-> name, LocationConstraint |-> region]

\* create_bucket: s3_client.create_bucket(...), inside the handler of the 404
CreateBucket ==
    /\ b_pc = "create_bucket"
    /\ create_request' = CreateRequest(cb_name, cb_region)
    /\ cb_creates' = cb_creates + 1
    /\ LET response == CreateBucketResponse(cb_name, cb_region)
       IN  /\ buckets' = IF response.error \/ Owned(cb_name)
                         THEN buckets
                         ELSE buckets \cup {[name |-> cb_name, region |-> cb_region]}
           /\ EndCall([kind |-> "create_bucket", name |-> cb_name, region |-> cb_region,
                       raised |-> IF response.error
                                  THEN [op |-> "create_bucket", code |-> response.code]
                                  ELSE NoS3Error,
                       creates |-> cb_creates + 1])
    /\ UNCHANGED <<cb_name, cb_region, dm_names, dm_i, results, attempts, db_before,
                   db_outcome, db_requests, object_versions>>
    /\ UNCHANGED <<helperVars, athenaVars, raceVars, classVars, commandVars,
                   legacyVars, policyVars, perfVars, tableVars, restoreVars>>

\* f"Bucket '{bucket_name}' has been deleted."
DeletedMessage(name) == <<"Bucket '", name, "' has been deleted.">>

\* f"Error deleting bucket '{bucket_name}': {str(e)}"
ErrorMessage(name, e) == <<"Error deleting bucket '", name, "': ", e.op, e.code>>

\* faulty variant: delete_bucket without its handler: the ClientError leaves the call
DeleteBucketNoExcept(name, e) ==
    [name |-> name, over |-> TRUE, raised |-> TRUE, result |-> <<>>]

\* delete_bucket: except ClientError as e: return f"Error deleting bucket ..."
DeleteBucketExcept(name, e) ==
    [name |-> name, over |-> TRUE, raised |-> FALSE, result |-> ErrorMessage(name, e)]

\* faulty variant: the loop puts each result in front of the earlier ones
CollectResultInFront(rs, result) == <<result>> \o rs

\* delete_multiple_buckets: results.append(result)
CollectResult(rs, result) == Append(rs, result)

\* a caller (the delete-bucket command) calls delete_multiple_buckets
CallDeleteMultipleBuckets ==
    /\ b_pc = "idle"
    /\ dm_names' \in SeqsUpTo(BucketNames, MaxBatch)
    /\ dm_i' = 0 /\ results' = <<>> /\ attempts' = <<>>
    /\ db_before' = {} /\ db_outcome' = NoOutcome /\ db_requests' = <<>>
    /\ b_pc' = "for"
    /\ cb_name' = "" /\ cb_region' = "" /\ cb_creates' = 0
    /\ UNCHANGED <<serviceVars, create_request, prev_call, last_call>>
    /\ UNCHANGED <<helperVars, athenaVars, raceVars, classVars, commandVars,
                   legacyVars, policyVars, perfVars, tableVars, restoreVars>>

\* delete_multiple_buckets: for bucket_name in bucket_names: ... return results
ForBucketName ==
    /\ b_pc = "for"
    /\ IF dm_i < Len(dm_names)
       THEN /\ b_pc' = "object_versions"
            /\ UNCHANGED <<prev_call, last_call>>
       ELSE EndCall([kind |-> "delete_multiple_buckets", name |-> "", region |-> "",
                     raised |-> NoS3Error, creates |-> 0])
    /\ UNCHANGED <<serviceVars, cb_name, cb_region, cb_creates, create_request,
                   dm_names, dm_i, results, attempts, db_before, db_outcome, db_requests>>
    /\ UNCHANGED <<helperVars, athenaVars, raceVars, classVars, commandVars,
                   legacyVars, policyVars, perfVars, tableVars, restoreVars>>

\* what a delete_bucket call that ended does to the loop that called it
AfterDeleteBucket(outcome) ==
    /\ db_outcome' = outcome
    /\ IF outcome.raised
       THEN /\ b_pc' = "raised"
            /\ UNCHANGED <<results, dm_i>>
       ELSE /\ results' = CollectResult(results, outcome.result)
            /\ dm_i' = dm_i + 1
            /\ b_pc' = "for"

\* S3, the requests of object_versions.delete(): the versions are listed and deleted,
\* unless there is no such bucket, it is another account's, or the caller may not
ObjectVersionsResponses(name) ==
    IF Owned(name)
    THEN {[error |-> FALSE, code |-> <<>>], [error |-> TRUE, code |-> Code_AccessDenied]}
    ELSE {[error |-> TRUE,
           code |-> IF name \in ForeignNames THEN Code_AccessDenied ELSE Code_NoSuchBucket]}

\* S3 delete_bucket: deletes a bucket of the caller that holds nothing
DeleteBucketResponse(name) ==
    IF ~Owned(name)
    THEN [error |-> TRUE,
          code |-> IF name \in ForeignNames THEN Code_AccessDenied ELSE Code_NoSuchBucket]
    ELSE IF name \in object_versions
         THEN [error |-> TRUE, code |-> Code_BucketNotEmpty]
         ELSE [error |-> FALSE, code |-> <<>>]

\* faulty variant: the delete-bucket request follows whatever the version deletion did
AfterObjectVersionsAlways(deleted) == "delete_bucket"

\* delete_bucket: a ClientError of object_versions.delete() leaves the try block
AfterObjectVersions(deleted) == IF deleted THEN "delete_bucket" ELSE "except"

\* delete_bucket: bucket.object_versions.delete()
DeleteObjectVersions ==
    /\ b_pc = "object_versions"
    /\ LET name == dm_names[dm_i + 1]
       IN  /\ attempts' = Append(attempts, name)
           /\ db_before' = buckets
           /\ \E response \in ObjectVersionsResponses(name) :
                /\ db_requests' = <<[op |-> "object_versions.delete",
                                     ok |-> ~response.error]>>
                /\ object_versions' = IF response.error THEN object_versions
                                                         ELSE object_versions \ {name}
                /\ IF AfterObjectVersions(~response.error) = "delete_bucket"
                   THEN /\ b_pc' = "delete_bucket"
                        /\ db_outcome' = [name |-> name, over |-> FALSE, raised |-> FALSE,
                                          result |-> <<>>]
                        /\ UNCHANGED <<results, dm_i>>
                   ELSE AfterDeleteBucket(DeleteBucketExcept(name,
                             [op |-> "list_object_versions", code |-> response.code]))
    /\ UNCHANGED <<buckets, cb_name, cb_region, cb_creates, create_request,
                   prev_call, last_call, dm_names>>
    /\ UNCHANGED <<helperVars, athenaVars, raceVars, classVars, commandVars,
                   legacyVars, policyVars, perfVars, tableVars, restoreVars>>

\* delete_bucket: s3_client.delete_bucket(Bucket=bucket_name), then the return of
\* the message or the handler
DeleteBucketRequest ==
    /\ b_pc = "delete_bucket"
    /\ LET name == dm_names[dm_i + 1]
           response == DeleteBucketResponse(name)
       IN  /\ db_requests' = Append(db_requests, [op |-> "delete_bucket",
                                                  ok |-> ~response.error])
           /\ buckets' = IF response.error THEN buckets
                                           ELSE {b \in buckets : b.name # name}
           /\ AfterDeleteBucket(
                 IF response.error
                 THEN DeleteBucketExcept(name, [op |-> "delete_bucket",
                                                code |-> response.code])
                 ELSE [name |-> name, over |-> TRUE, raised |-> FALSE,
                       result |-> DeletedMessage(name)])
    /\ UNCHANGED <<object_versions, cb_name, cb_region, cb_creates, create_request,
                   prev_call, last_call, dm_names, attempts, db_before>>
    /\ UNCHANGED <<helperVars, athenaVars, raceVars, classVars, commandVars,
                   legacyVars, policyVars, perfVars, tableVars, restoreVars>>

\* another command (upload, delete-file) writes an object version or a delete
\* marker into a bucket of the account
PutObject ==
    /\ b_pc # "off"
    /\ \E name \in OwnNames :
          /\ Owned(name) /\ name \notin object_versions
          /\ object_versions' = object_versions \cup {name}
    /\ UNCHANGED <<buckets, callVars>>
    /\ UNCHANGED <<helperVars, athenaVars, raceVars, classVars, commandVars,
                   legacyVars, policyVars, perfVars, tableVars, restoreVars>>

InitBuckets ==
    /\ HelpersOff /\ AthenaOff /\ RaceOff /\ ClassOff /\ CommandsOff
    /\ LegacyOff /\ PolicyOff /\ PerfOff /\ TableOff /\ RestoreOff
    /\ buckets = {} /\ object_versions = {} /\ b_pc = "idle"
    /\ cb_name = "" /\ cb_region = "" /\ cb_creates = 0 /\ create_request = NoRequest
    /\ prev_call = NoCall /\ last_call = NoCall
    /\ dm_names = <<>> /\ dm_i = 0 /\ results = <<>> /\ attempts = <<>>
    /\ db_before = {} /\ db_outcome = NoOutcome /\ db_requests = <<>>

NextBuckets ==
    \/ CallCreateBucket
    \/ HeadBucket
    \/ CreateBucket
    \/ CallDeleteMultipleBuckets
    \/ ForBucketName
    \/ DeleteObjectVersions
    \/ DeleteBucketRequest
    \/ PutObject

SpecBuckets == InitBuckets /\ [][NextBuckets]_vars

(***************************************************************************)
(* The calls that issue a start or a create request: one run of            *)
(* run_athena_query, or calls of create_bucket one after the other         *)
(***************************************************************************)
InitCalls == InitAthena \/ InitBuckets

NextCalls == NextAthena \/ NextBuckets

SpecCalls == InitCalls /\ [][NextCalls]_vars

(***************************************************************************)
(* Properties of run_athena_query                                          *)
(***************************************************************************)
FinalStates == {"SUCCEEDED", "FAILED", "CANCELLED"}

RunOver == aq_pc \in {"done", "raised"}

\* C1 (as claimed): when the run of a SELECT statement whose execution was reported
\* SUCCEEDED is over, exactly one get_query_results request and exactly one
\* store (copy_object) request were issued.
C1_OneFetchOneStore ==
    (RunOver /\ IsSelect(aq_query) /\ state = "SUCCEEDED")
        => (nFetch = 1 /\ nStore = 1)

\* C1 (amended): when the run of a SELECT statement whose execution was reported
\* SUCCEEDED is over, exactly one get_query_results request was issued; exactly one
\* store request was issued if that request returned at least one row, and none if
\* it raised an error or returned no rows.
C1_OneFetchStoreIfRows ==
    (RunOver /\ IsSelect(aq_query) /\ state = "SUCCEEDED")
        => /\ nFetch = 1
           /\ nStore = IF query_results.returned /\ query_results.rows > 0 THEN 1 ELSE 0

C1_Witness ==
    /\ aq_pc = "done" /\ IsSelect(aq_query) /\ state = "SUCCEEDED"
    /\ query_results.rows > 0 /\ nFetch = 1 /\ nStore = 1 /\ stored_key # <<>>

\* C2: once the execution was reported FAILED or CANCELLED, no get_query_results
\* request and no store request is ever issued, whatever the statement is.
C2_NoFetchAfterFailure ==
    state \in {"FAILED", "CANCELLED"} => (nFetch = 0 /\ nStore = 0)

\* C3: for a statement that does not begin with SELECT, no get_query_results
\* request and no store request is issued, in any state of the run and whichever
\* final state the execution reaches.
C3_NoFetchForNonSelect ==
    ~IsSelect(aq_query) => (nFetch = 0 /\ nStore = 0)

C3_Witness ==
    /\ aq_pc = "done" /\ ~IsSelect(aq_query) /\ state = "CANCELLED" /\ nPoll > 1

\* C4: wait_for_query_to_complete leaves its loop exactly on a report of SUCCEEDED,
\* FAILED or CANCELLED: the step that follows a report returns if the reported
\* state is one of the three and polls again otherwise, the run is past the loop
\* only with one of the three reported, and a report of one of the three is
\* always followed by the return.
C4_PollingStopsIffFinal ==
    /\ [][(aq_pc = "check" /\ aq_pc' # "check")
            => /\ (aq_pc' = "waited") <=> (state \in FinalStates)
               /\ (aq_pc' = "poll") <=> (state \notin FinalStates)]_vars
    /\ [](aq_pc \in {"waited", "fetch", "store", "done"} => state \in FinalStates)
    /\ ((aq_pc = "check" /\ state \in FinalStates) ~> (aq_pc = "waited"))

C4_Witness ==
    /\ aq_pc = "waited" /\ nPoll > 1 /\ state = "CANCELLED"

\* C10: a ClientError raised by start_query_execution, get_query_execution,
\* get_query_results or copy_object leaves run_athena_query as that same error,
\* the steps that come after the failing one were never run, and no request is
\* issued after the error.
C10_ErrorPropagates ==
    /\ [](aq_thrown # NoError =>
            /\ aq_pc = "raised"
            /\ aq_caller = aq_thrown
            /\ (aq_thrown.op = "start_query_execution" => nPoll = 0 /\ nFetch = 0 /\ nStore = 0)
            /\ (aq_thrown.op = "get_query_execution" => nFetch = 0 /\ nStore = 0)
            /\ (aq_thrown.op = "get_query_results" => nStore = 0)
            /\ (aq_thrown.op = "copy_object" => stored_key = <<>>))
    /\ [][aq_thrown # NoError =>
            UNCHANGED <<aq_pc, aq_caller, aq_thrown, nStart, nPoll, nFetch, nStore, stored_key>>]_vars

C10_Witness ==
    /\ aq_pc = "raised" /\ aq_thrown.op = "copy_object" /\ aq_caller = aq_thrown
    /\ nStart = 1 /\ nFetch = 1 /\ nStore = 1

\* a step taken in a final state sends no poll and keeps the state
FinalStateKept ==
    state \in FinalStates => (nPoll' = nPoll /\ state' = state)

\* C18: once a poll has reported SUCCEEDED, FAILED or CANCELLED, no step of the run
\* issues another get_query_execution request, and the state the run holds for
\* the execution stays that final state.
C18_NoPollAfterFinal == [][FinalStateKept]_vars

C18_Witness ==
    /\ aq_pc = "fetch" /\ state = "SUCCEEDED" /\ nPoll > 0 /\ nPoll < MaxPolls

(***************************************************************************)
(* Properties of the helper functions                                      *)
(***************************************************************************)
\* C5 (as claimed): generate_filename of
\* `SELECT patient_id, name FROM medical_db.patient_data` on the date D returns
\* D (as YYYYMMDD) followed by `_patient_data_patient_id_name`.
C5_PatientFilenameAsClaimed ==
    (h_pc = "returned_filename" /\ h_query = Q_Patient)
        => h_name = FormatDate(h_now) \o Expected_Patient

\* C5 (amended): generate_filename of that query on the date D returns D (as
\* YYYYMMDD) followed by `_patient_data_patient_id_name_from`: the third word after
\* `select` is `from`, and it is part of the action segment.
C5_PatientFilename ==
    (h_pc = "returned_filename" /\ h_query = Q_Patient)
        => h_name = FormatDate(h_now) \o Actual_Patient

C5_Witness ==
    /\ h_pc = "returned_filename" /\ h_query = Q_Patient /\ Len(h_name) > Len(Actual_Patient)

\* C9: get_default_bucket reads the images_bucket entry of the configuration for a
\* filename whose guessed MIME type starts with image/, and the data_bucket entry
\* for every other filename; it returns that entry and reads no other key.
C9_DefaultBucketRole ==
    h_pc = "returned_bucket"
        => /\ h_key = IF StartsWith(GuessType(h_filename), P_image)
                      THEN "images_bucket" ELSE "data_bucket"
           /\ h_bucket = h_config[h_key]
           /\ h_key \in {"images_bucket", "data_bucket"}

C9_Witness ==
    /\ h_pc = "returned_bucket" /\ h_filename = F_PngGz
    /\ h_key = "images_bucket" /\ h_bucket = h_config["images_bucket"]

(***************************************************************************)
(* Properties of the bucket provisioner                                    *)
(***************************************************************************)
SameCreateTwice ==
    /\ b_pc = "idle"
    /\ prev_call.kind = "create_bucket" /\ last_call.kind = "create_bucket"
    /\ prev_call.name = last_call.name /\ prev_call.region = last_call.region

C7_DeleteMissingBucket ==
    (/\ db_outcome.over
     /\ db_outcome.name \notin ForeignNames
     /\ ~\E b \in db_before : b.name = db_outcome.name)
        => /\ ~db_outcome.raised
           /\ b_pc # "raised"
           /\ Len(db_outcome.result) > 1
           /\ db_outcome.result[1] = "Error deleting bucket '"
           /\ db_outcome.result[2] = db_outcome.name
           /\ buckets = db_before

C7_Witness ==
    /\ db_outcome.over /\ db_outcome.name \in OwnNames
    /\ ~\E b \in db_before : b.name = db_outcome.name
    /\ db_before # {}
    /\ db_outcome.result[1] = "Error deleting bucket '"

\* C8: when delete_multiple_buckets has returned, results holds one message per name
\* of bucket_names, the i-th message being the outcome for the i-th name, and
\* delete_bucket was called for every name in input order, also for the names that
\* follow a failed deletion.
C8_OneResultPerName ==
    (b_pc = "idle" /\ last_call.kind = "delete_multiple_buckets")
        => /\ Len(results) = Len(dm_names)
           /\ \A i \in 1..Len(dm_names) :
                /\ results[i][1] \in {"Bucket '", "Error deleting bucket '"}
                /\ results[i][2] = dm_names[i]
           /\ attempts = dm_names

C8_Witness ==
    /\ b_pc = "idle" /\ last_call.kind = "delete_multiple_buckets"
    /\ Len(dm_names) = 2 /\ dm_names[1] # dm_names[2]
    /\ results[1][1] = "Error deleting bucket '"
    /\ results[2] = DeletedMessage(dm_names[2])

\* C20: a create_bucket call that found the bucket absent issued one create request
\* for its name: without a location constraint exactly when the region is
\* us-east-1, and with the region as location constraint for any other region.
C20_RegionAwareCreate ==
    (b_pc = "idle" /\ last_call.kind = "create_bucket" /\ last_call.creates > 0)
        => /\ last_call.creates = 1
           /\ create_request.Bucket = last_call.name
           /\ (create_request.LocationConstraint = "") <=> (last_call.region = "us-east-1")
           /\ last_call.region # "us-east-1"
                => create_request.LocationConstraint = last_call.region

C20_Witness ==
    /\ b_pc = "idle" /\ last_call.kind = "create_bucket" /\ last_call.creates = 1
    /\ last_call.region = "us-east-1" /\ create_request.LocationConstraint = ""
    /\ prev_call.kind = "create_bucket" /\ prev_call.region = "eu-west-1"
    /\ prev_call.creates = 1

\* the last delete_bucket call issued its requests in the order of the code
RequestsInOrder ==
    \A i \in DOMAIN db_requests :
        db_requests[i].op = "delete_bucket"
            => i = 2 /\ db_requests[1] = [op |-> "object_versions.delete", ok |-> TRUE]

\* the version deletion that lets delete_bucket go on left nothing in the bucket
VersionsDeletedFirst ==
    (b_pc = "object_versions" /\ b_pc' = "delete_bucket")
        => dm_names[dm_i + 1] \notin object_versions'

\* the success message is returned after a delete-bucket request that succeeded
MessageAfterDeletion ==
    (db_outcome.over /\ db_outcome.result = DeletedMessage(db_outcome.name))
        => /\ Len(db_requests) = 2
           /\ db_requests[2] = [op |-> "delete_bucket", ok |-> TRUE]
           /\ ~Owned(db_outcome.name)

\* C17: a delete_bucket call issues the delete-bucket request only as its second
\* request, after a version deletion that succeeded and left no version or delete
\* marker in the bucket; it issues none when the version deletion failed; and it
\* returns the success message only when the delete-bucket request succeeded.
C17_VersionsThenBucket ==
    /\ [](RequestsInOrder /\ MessageAfterDeletion)
    /\ [][VersionsDeletedFirst]_vars

C17_Witness ==
    /\ db_outcome.over /\ db_outcome.name \in object_versions
    /\ db_requests = <<[op |-> "object_versions.delete", ok |-> TRUE],
                       [op |-> "delete_bucket", ok |-> FALSE]>>
    /\ db_outcome.result[1] = "Error deleting bucket '"

\* C19: one run of run_athena_query issues at most one start_query_execution
\* request, also after a poll, a fetch or a copy raised, and every create_bucket
\* call, in progress or ended, issued at most one create request.
C19_NothingRetried ==
    /\ nStart <= 1
    /\ (aq_pc \in {"raised", "done"}) => nStart = 1
    /\ cb_creates <= 1 /\ last_call.creates <= 1 /\ prev_call.creates <= 1

C19_Witness ==
    /\ aq_pc = "raised" /\ aq_thrown.op = "copy_object" /\ nStart = 1
    /\ nPoll > 1 /\ nFetch = 1 /\ nStore = 1

(***************************************************************************)
(* s3_module/s3_setup.py: two concurrent calls of create_bucket with the   *)
(* same name and region; S3 serves one request at a time                   *)
(***************************************************************************)
InitRace ==
    /\ HelpersOff /\ AthenaOff /\ CallsOff /\ ClassOff /\ CommandsOff
    /\ LegacyOff /\ PolicyOff /\ PerfOff /\ TableOff /\ RestoreOff
    /\ r_name \in BucketNames /\ r_region \in Regions
    /\ buckets \in {{}} \cup (IF r_name \in OwnNames
                               THEN {{[name |-> r_name, region |-> region]} :
                                        region \in Regions}
                               ELSE {})
    /\ object_versions = {}
    /\ r_pc = [p \in Procs |-> "head_bucket"]
    /\ r_creates = [p \in Procs |-> 0]
    /\ r_raised = [p \in Procs |-> NoS3Error]

\* faulty variant: an error of the existence check other than 404 is tried again
AfterHeadBucketRetry(response) ==
    IF IssuesCreate(response) THEN "create_bucket"
    ELSE IF response.error THEN "head_bucket" ELSE "print_exists"

\* create_bucket: the statement that follows head_bucket
AfterHeadBucket(response) ==
    IF IssuesCreate(response) THEN "create_bucket"
    ELSE IF response.error THEN "raised" ELSE "print_exists"

\* create_bucket in caller p: s3_client.head_bucket(Bucket=bucket_name)
RaceHeadBucket(p) ==
    /\ r_pc[p] = "head_bucket"
    /\ LET response == HeadBucketResponse(r_name)
       IN  /\ r_pc' = [r_pc EXCEPT ![p] = AfterHeadBucket(response)]
           /\ r_raised' = IF AfterHeadBucket(response) = "raised"
                          THEN [r_raised EXCEPT ![p] = [op |-> "head_bucket",
                                                        code |-> response.code]]
                          ELSE r_raised
    /\ UNCHANGED <<r_name, r_region, r_creates>>
    /\ UNCHANGED <<helperVars, athenaVars, bucketVars, classVars, commandVars,
                   legacyVars, policyVars, perfVars, tableVars, restoreVars>>

\* create_bucket in caller p: s3_client.create_bucket(...); its ClientError is
\* raised inside the handler of the 404 and leaves the call
RaceCreateBucket(p) ==
    /\ r_pc[p] = "create_bucket"
    /\ r_creates' = [r_creates EXCEPT ![p] = @ + 1]
    /\ LET response == CreateBucketResponse(r_name, r_region)
       IN  /\ buckets' = IF response.error \/ Owned(r_name)
                         THEN buckets
                         ELSE buckets \cup {[name |-> r_name, region |-> r_region]}
           /\ r_pc' = [r_pc EXCEPT ![p] = IF response.error THEN "raised"
                                                            ELSE "print_created"]
           /\ r_raised' = IF response.error
                          THEN [r_raised EXCEPT ![p] = [op |-> "create_bucket",
                                                        code |-> response.code]]
                          ELSE r_raised
    /\ UNCHANGED <<r_name, r_region, object_versions, callVars>>
    /\ UNCHANGED <<helperVars, athenaVars, classVars, commandVars, legacyVars,
                   policyVars, perfVars, tableVars, restoreVars>>

\* create_bucket in caller p: print(...) and the return
RacePrint(p) ==
    /\ r_pc[p] \in {"print_exists", "print_created"}
    /\ r_pc' = [r_pc EXCEPT ![p] = "returned"]
    /\ UNCHANGED <<r_name, r_region, r_creates, r_raised>>
    /\ UNCHANGED <<helperVars, athenaVars, bucketVars, classVars, commandVars,
                   legacyVars, policyVars, perfVars, tableVars, restoreVars>>

RaceProc(p) == RaceHeadBucket(p) \/ RaceCreateBucket(p) \/ RacePrint(p)

NextRace == \E p \in Procs : RaceProc(p)

SpecRace == InitRace /\ [][NextRace]_vars

\* each caller keeps running: a statement of it that can run does run
FairSpecRace == SpecRace /\ \A p \in Procs : WF_vars(RaceProc(p))

\* the buckets named r_name, in the caller's account or in another one
NamedBuckets ==
    Cardinality({b \in buckets : b.name = r_name})
        + (IF r_name \in ForeignNames THEN 1 ELSE 0)

RaceOver == \A p \in Procs : r_pc[p] \in {"returned", "raised"}

\* C16: in every interleaving of two concurrent create_bucket calls with the same
\* name and region there is never more than one bucket of that name, both calls
\* end (by returning or by raising), and when both have ended there is exactly
\* one bucket of that name.
C16_ConcurrentCreate ==
    /\ [](NamedBuckets <= 1)
    /\ <>RaceOver
    /\ [](RaceOver => NamedBuckets = 1)

C16_Witness ==
    /\ RaceOver /\ r_region = "eu-west-1"
    /\ r_creates = [p \in Procs |-> 1]
    /\ r_pc[1] = "returned" /\ r_pc[2] = "raised"
    /\ r_raised[2].code = Code_BucketAlreadyOwnedByYou
    /\ NamedBuckets = 1

(***************************************************************************)
(* cli.py: set_storage_class                                               *)
(***************************************************************************)
\* click.Choice([...]): the values of the storage_class argument
StorageClasses == {"STANDARD", "STANDARD_IA", "ONEZONE_IA", "GLACIER", "DEEP_ARCHIVE"}

\* what is typed as storage_class: a value of the choice, one in another case, a
\* class S3 has and the choice has not, a word that is no class
StorageClassInputs == StorageClasses \cup {"glacier", "INTELLIGENT_TIERING", "COLD"}

InitClass ==
    /\ HelpersOff /\ AthenaOff /\ BucketsOff /\ RaceOff /\ CommandsOff
    /\ LegacyOff /\ PolicyOff /\ PerfOff /\ TableOff /\ RestoreOff
    /\ sc_pc = "convert"
    /\ sc_storage_class \in StorageClassInputs
    /\ sc_filename \in {"patients.csv", "notes.txt"}
    /\ sc_config \in {"json", "missing"}
    /\ sc_objects \in [{"patients.csv"} -> {"STANDARD", "GLACIER"}]
    /\ sc_before = sc_objects
    /\ sc_copies = 0

\* faulty variant: the argument is a plain string, every value is passed on
ChoiceConvertAny(value) == TRUE

\* click.Choice.convert: the value is accepted when it is one of the choices, as
\* typed (the choice is case sensitive)
ChoiceConvert(value) == value \in StorageClasses

\* click parses the arguments before it calls set_storage_class; a value that is
\* no choice ends the command with a usage error
ClickChoice ==
    /\ sc_pc = "convert"
    /\ sc_pc' = IF ChoiceConvert(sc_storage_class) THEN "open_config" ELSE "usage_error"
    /\ UNCHANGED <<sc_storage_class, sc_filename, sc_config, sc_objects, sc_before,
                   sc_copies>>
    /\ UNCHANGED <<helperVars, athenaVars, bucketVars, raceVars, commandVars,
                   legacyVars, policyVars, perfVars, tableVars, restoreVars>>

\* set_storage_class: with open('config.json', 'r') as config_file: json.load(...)
OpenConfig ==
    /\ sc_pc = "open_config"
    /\ sc_pc' = IF sc_config = "json" THEN "copy_object" ELSE "raised"
    /\ UNCHANGED <<sc_storage_class, sc_filename, sc_config, sc_objects, sc_before,
                   sc_copies>>
    /\ UNCHANGED <<helperVars, athenaVars, bucketVars, raceVars, commandVars,
                   legacyVars, policyVars, perfVars, tableVars, restoreVars>>

\* set_storage_class: s3_client.copy_object(...) of the object onto itself; S3
\* refuses a key it has not, a class it has not, and a source that is archived;
\* the handler of the ClientError prints it
CopyObject ==
    /\ sc_pc = "copy_object"
    /\ sc_copies' = sc_copies + 1
    /\ IF /\ sc_filename \in DOMAIN sc_objects
          /\ sc_storage_class \in StorageClasses \cup {"INTELLIGENT_TIERING"}
          /\ sc_objects[sc_filename] \notin {"GLACIER", "DEEP_ARCHIVE"}
       THEN /\ sc_objects' = [sc_objects EXCEPT ![sc_filename] = sc_storage_class]
            /\ sc_pc' = "set"
       ELSE /\ sc_pc' = "error_printed"
            /\ UNCHANGED sc_objects
    /\ UNCHANGED <<sc_storage_class, sc_filename, sc_config, sc_before>>
    /\ UNCHANGED <<helperVars, athenaVars, bucketVars, raceVars, commandVars,
                   legacyVars, policyVars, perfVars, tableVars, restoreVars>>

NextClass == ClickChoice \/ OpenConfig \/ CopyObject

SpecClass == InitClass /\ [][NextClass]_vars

\* C15: when the storage_class argument is none of STANDARD, STANDARD_IA,
\* ONEZONE_IA, GLACIER, DEEP_ARCHIVE, set_storage_class issues no copy_object
\* request, the storage class of every object is the one it had, and the command
\* ends with the usage error before its body runs.
C15_UnknownClassRejected ==
    (sc_pc # "off" /\ sc_storage_class \notin StorageClasses)
        => /\ sc_copies = 0
           /\ sc_objects = sc_before
           /\ sc_pc \in {"convert", "usage_error"}

C15_Witness ==
    /\ sc_pc = "usage_error" /\ sc_storage_class = "INTELLIGENT_TIERING"
    /\ sc_filename = "patients.csv" /\ sc_config = "json"
    /\ sc_objects["patients.csv"] = "STANDARD" /\ sc_copies = 0

(***************************************************************************)
(* manage.py: one run of a command that reads or writes config.json        *)
(***************************************************************************)
\* config.json as a run of a command can find it: as s3_setup wrote it, with a
\* null left by update_config_after_deletion, or without some keys
ConfigDatas ==
    LET written == CHOOSE c \in Configs : c["data_bucket"] = "patient-data-1"
    IN  {written,
         [written EXCEPT !["images_bucket"] = Null],
         [written EXCEPT !["data_bucket"] = Null],
         [written EXCEPT !["athena_output_bucket"] = Null],
         [written EXCEPT !["data_bucket"] = Absent, !["athena_output_bucket"] = Absent],
         EmptyConfig}

ConfigFiles ==
    {NoConfigFile, [file |-> "malformed", data |-> EmptyConfig]}
        \cup {[file |-> "json", data |-> d] : d \in ConfigDatas}

\* the arguments a command is run with; names are the bucket names s3_setup
\* generates
ArgsOf(cmd) ==
    CASE cmd = "s3 setup" -> {[NoArgs EXCEPT !.names = n] : n \in Configs}
      [] cmd = "s3 delete-bucket" ->
            {[NoArgs EXCEPT !.bucket_names = bs] :
                bs \in SeqsUpTo({"patient-data-1", "scratch-bucket"}, MaxBatch) \ {<<>>}}
      [] cmd \in {"s3 upload", "s3 download", "s3 delete-file"} ->
            {[NoArgs EXCEPT !.filename = f] : f \in {F_ScanJpg, F_Csv}}
      [] OTHER -> {NoArgs}

\* the first statement of each command that issues a request or reads a file
FirstStatement(cmd) ==
    CASE cmd = "s3 setup" -> "provision"
      [] cmd = "s3 delete-bucket" -> "delete_multiple_buckets"
      [] OTHER -> "load_config"

InitCommands ==
    /\ HelpersOff /\ AthenaOff /\ BucketsOff /\ RaceOff /\ ClassOff
    /\ LegacyOff /\ PolicyOff /\ PerfOff /\ TableOff /\ RestoreOff
    /\ command \in {"s3 setup", "s3 delete-bucket", "s3 upload", "s3 download",
                     "s3 delete-file", "athena run-query"}
    /\ c_args \in ArgsOf(command)
    /\ c_pc = FirstStatement(command)
    /\ config_json \in ConfigFiles
    /\ config_before = config_json
    /\ config_data = EmptyConfig
    /\ c_exit = -1 /\ load_calls = 0 /\ c_writes = 0 /\ c_log = <<>> /\ applied = <<>>
    /\ c_results = <<>> /\ c_i = 0 /\ c_bucket = ""

\* faulty variant: a file that cannot be read is taken as an empty configuration
load_config_lenient(file) == [exit |-> FALSE, data |-> file.data]

\* load_config: json.load of the file, or exit(1) when it is missing or not JSON
load_config(file) ==
    IF file.file = "json" THEN [exit |-> FALSE, data |-> file.data]
                          ELSE [exit |-> TRUE, data |-> EmptyConfig]

\* config_data = load_config(), in the command or in update_config_after_deletion
LoadConfig ==
    /\ c_pc = "load_config"
    /\ load_calls' = load_calls + 1
    /\ IF load_config(config_json).exit
       THEN /\ c_pc' = "exited" /\ c_exit' = 1
            /\ UNCHANGED config_data
       ELSE /\ config_data' = load_config(config_json).data
            /\ c_pc' = CASE command \in {"s3 upload", "s3 download"} -> "get_default_bucket"
                          [] command = "s3 delete-file" -> "delete_object"
                          [] command = "athena run-query" -> "run_athena_query"
                          [] OTHER -> "update_config"
            /\ UNCHANGED c_exit
    /\ UNCHANGED <<command, c_args, config_json, config_before, c_writes, c_log, applied,
                   c_results, c_i, c_bucket>>
    /\ UNCHANGED <<helperVars, athenaVars, bucketVars, raceVars, classVars,
                   legacyVars, policyVars, perfVars, tableVars, restoreVars>>

\* upload, download: bucket = get_default_bucket(filename, config_data); a key
\* the dictionary has not raises KeyError
DefaultBucket ==
    /\ c_pc = "get_default_bucket"
    /\ IF get_default_bucket(c_args.filename, config_data) = Absent
       THEN /\ c_pc' = "raised" /\ c_exit' = 1
            /\ UNCHANGED c_bucket
       ELSE /\ c_bucket' = get_default_bucket(c_args.filename, config_data)
            /\ c_pc' = "transfer"
            /\ UNCHANGED c_exit
    /\ UNCHANGED <<command, c_args, config_json, config_before, config_data, load_calls,
                   c_writes, c_log, applied, c_results, c_i>>
    /\ UNCHANGED <<helperVars, athenaVars, bucketVars, raceVars, classVars,
                   legacyVars, policyVars, perfVars, tableVars, restoreVars>>

\* upload: upload_file(filename, bucket), whose ClientError is raised again; the
\* SDK rejects Bucket=None before it sends anything.
\* download: download_file(...), a name s3_module does not export (NameError)
Transfer ==
    /\ c_pc = "transfer"
    /\ IF command = "s3 upload" /\ c_bucket # Null
       THEN /\ c_log' = Append(c_log, [op |-> "upload_file", bucket |-> c_bucket])
            /\ \/ c_pc' = "done" /\ c_exit' = 0
               \/ c_pc' = "raised" /\ c_exit' = 1
       ELSE /\ c_pc' = "raised" /\ c_exit' = 1
            /\ UNCHANGED c_log
    /\ UNCHANGED <<command, c_args, config_json, config_before, config_data, load_calls,
                   c_writes, applied, c_results, c_i, c_bucket>>
    /\ UNCHANGED <<helperVars, athenaVars, bucketVars, raceVars, classVars,
                   legacyVars, policyVars, perfVars, tableVars, restoreVars>>

\* delete_file: s3_client.delete_object(Bucket=config_data['data_bucket'], ...);
\* KeyError without the key, the SDK rejects Bucket=None before it sends
\* anything, and a ClientError of the request is printed
DeleteObject ==
    /\ c_pc = "delete_object"
    /\ IF config_data["data_bucket"] \in {Absent, Null}
       THEN /\ c_pc' = "raised" /\ c_exit' = 1
            /\ UNCHANGED c_log
       ELSE /\ c_log' = Append(c_log, [op |-> "delete_object",
                                       bucket |-> config_data["data_bucket"]])
            /\ c_pc' = "done" /\ c_exit' = 0
    /\ UNCHANGED <<command, c_args, config_json, config_before, config_data, load_calls,
                   c_writes, applied, c_results, c_i, c_bucket>>
    /\ UNCHANGED <<helperVars, athenaVars, bucketVars, raceVars, classVars,
                   legacyVars, policyVars, perfVars, tableVars, restoreVars>>

\* f'{athena_output_bucket}': str(None) is 'None'
Str(value) == IF value = Null THEN "None" ELSE value

\* run_query: run_athena_query(query, ATHENA_DATABASE,
\* config_data['athena_output_bucket']); KeyError without the key; the name is
\* bound when athena_module exports it (NameError when it does not); the call
\* starts the execution with OutputLocation f's3://{athena_output_bucket}/' and
\* goes on as run_athena_query does
RunAthenaQuery ==
    /\ c_pc = "run_athena_query"
    /\ \/ /\ c_pc' = "raised" /\ c_exit' = 1
          /\ UNCHANGED c_log
       \/ /\ config_data["athena_output_bucket"] # Absent
          /\ c_log' = Append(c_log, [op |-> "start_query_execution",
                                     bucket |-> Str(config_data["athena_output_bucket"])])
          /\ \/ c_pc' = "done" /\ c_exit' = 0
             \/ c_pc' = "raised" /\ c_exit' = 1
    /\ UNCHANGED <<command, c_args, config_json, config_before, config_data, load_calls,
                   c_writes, applied, c_results, c_i, c_bucket>>
    /\ UNCHANGED <<helperVars, athenaVars, bucketVars, raceVars, classVars,
                   legacyVars, policyVars, perfVars, tableVars, restoreVars>>

\* faulty variant: the names are saved before the Athena output bucket is set up
SetupStepsBeforeAthena ==
    <<[op |-> "create_bucket", role |-> "images_bucket"],
      [op |-> "enable_versioning", role |-> "images_bucket"],
      [op |-> "create_bucket", role |-> "data_bucket"],
      [op |-> "enable_versioning", role |-> "data_bucket"]>>

\* s3_setup: the provisioning calls in the order of the code, each for the bucket
\* of one role
SetupSteps ==
    <<[op |-> "create_bucket", role |-> "images_bucket"],
      [op |-> "enable_versioning", role |-> "images_bucket"],
      [op |-> "create_bucket", role |-> "data_bucket"],
      [op |-> "enable_versioning", role |-> "data_bucket"],
      [op |-> "set_lifecycle_policy", role |-> "images_bucket"],
      [op |-> "set_lifecycle_policy", role |-> "data_bucket"],
      [op |-> "set_bucket_policy", role |-> "images_bucket"],
      [op |-> "set_bucket_policy", role |-> "data_bucket"],
      [op |-> "enable_encryption", role |-> "images_bucket"],
      [op |-> "enable_encryption", role |-> "data_bucket"],
      [op |-> "create_bucket", role |-> "athena_output_bucket"],
      [op |-> "enable_versioning", role |-> "athena_output_bucket"],
      [op |-> "set_lifecycle_policy", role |-> "athena_output_bucket"],
      [op |-> "set_bucket_policy", role |-> "athena_output_bucket"],
      [op |-> "enable_encryption", role |-> "athena_output_bucket"]>>

\* faulty variant: a handler undoes the steps applied so far
AfterFailedStepRollback(done) == <<>>

\* s3_setup has no handler: the ClientError of a step leaves the command and
\* what is applied stays
AfterFailedStep(done) == done

\* s3_setup: the next provisioning call; it applies its step or raises
Provision ==
    /\ c_pc = "provision"
    /\ LET step == SetupSteps[c_i + 1]
       IN  /\ c_log' = Append(c_log, [op |-> step.op, bucket |-> c_args.names[step.role]])
           /\ \/ /\ applied' = Append(applied, step)
                 /\ c_i' = c_i + 1
                 /\ c_pc' = IF c_i + 1 = Len(SetupSteps) THEN "save_config"
                                                         ELSE "provision"
                 /\ UNCHANGED c_exit
              \/ /\ applied' = AfterFailedStep(applied)
                 /\ c_pc' = "raised" /\ c_exit' = 1
                 /\ UNCHANGED c_i
    /\ UNCHANGED <<command, c_args, config_json, config_before, config_data, load_calls,
                   c_writes, c_results, c_bucket>>
    /\ UNCHANGED <<helperVars, athenaVars, bucketVars, raceVars, classVars,
                   legacyVars, policyVars, perfVars, tableVars, restoreVars>>

\* s3_setup: save_config(config_data) with the three names
SaveConfig ==
    /\ c_pc = "save_config"
    /\ config_json' = [file |-> "json", data |-> c_args.names]
    /\ c_writes' = c_writes + 1
    /\ c_pc' = "done" /\ c_exit' = 0
    /\ UNCHANGED <<command, c_args, config_before, config_data, load_calls, c_log,
                   applied, c_results, c_i, c_bucket>>
    /\ UNCHANGED <<helperVars, athenaVars, bucketVars, raceVars, classVars,
                   legacyVars, policyVars, perfVars, tableVars, restoreVars>>

\* delete_bucket_command: results = delete_multiple_buckets(bucket_names): for each
\* name the requests of delete_bucket and the message it returns
DeleteBuckets ==
    /\ c_pc = "delete_multiple_buckets"
    /\ LET names == c_args.bucket_names
       IN  /\ \E deleted \in [DOMAIN names -> BOOLEAN] :
                c_results' = [i \in DOMAIN names |->
                                IF deleted[i]
                                THEN DeletedMessage(names[i])
                                ELSE ErrorMessage(names[i], [op |-> "delete_bucket",
                                                             code |-> Code_AccessDenied])]
           /\ c_log' = c_log \o [i \in DOMAIN names |->
                                    [op |-> "delete_bucket", bucket |-> names[i]]]
    /\ c_i' = 0
    /\ c_pc' = "for_result"
    /\ UNCHANGED <<command, c_args, c_exit, config_json, config_before, config_data,
                   load_calls, c_writes, applied, c_bucket>>
    /\ UNCHANGED <<helperVars, athenaVars, bucketVars, raceVars, classVars,
                   legacyVars, policyVars, perfVars, tableVars, restoreVars>>

\* "has been deleted" in result
HasBeenDeleted(result) == Len(result) = 3 /\ result[3] = "' has been deleted."

\* delete_bucket_command: for result in results: ... if "has been deleted" in result
ForResult ==
    /\ c_pc = "for_result"
    /\ IF c_i < Len(c_results)
       THEN /\ IF HasBeenDeleted(c_results[c_i + 1])
               THEN c_pc' = "load_config" /\ UNCHANGED c_i
               ELSE c_i' = c_i + 1 /\ UNCHANGED c_pc
            /\ UNCHANGED c_exit
       ELSE /\ c_pc' = "done" /\ c_exit' = 0
            /\ UNCHANGED c_i
    /\ UNCHANGED <<command, c_args, config_json, config_before, config_data, load_calls,
                   c_writes, c_log, applied, c_results, c_bucket>>
    /\ UNCHANGED <<helperVars, athenaVars, bucketVars, raceVars, classVars,
                   legacyVars, policyVars, perfVars, tableVars, restoreVars>>

\* faulty variant: the file is written after every deletion
NeedsSaveAlways(bucket_name, data) == TRUE

\* update_config_after_deletion: if bucket_name in config_data.values()
NeedsSave(bucket_name, data) == \E k \in ConfigKeys : data[k] = bucket_name

\* faulty variant: the keys that hold the name are removed
WithoutBucketDropsKeys(data, bucket_name) ==
    [k \in ConfigKeys |-> IF data[k] = bucket_name THEN Absent ELSE data[k]]

\* update_config_after_deletion: for key, value in config_data.items():
\* if value == bucket_name: config_data[key] = None
WithoutBucket(data, bucket_name) ==
    [k \in ConfigKeys |-> IF data[k] = bucket_name THEN Null ELSE data[k]]

\* update_config_after_deletion(result.split("'")[1]), after its load_config: the
\* keys that hold the name are set to None and the file is saved
UpdateConfig ==
    /\ c_pc = "update_config"
    /\ LET bucket_name == c_results[c_i + 1][2]
       IN  IF NeedsSave(bucket_name, config_data)
           THEN /\ config_json' =
                      [file |-> "json",
                       data |-> WithoutBucket(config_data, bucket_name)]
                /\ c_writes' = c_writes + 1
           ELSE UNCHANGED <<config_json, c_writes>>
    /\ c_i' = c_i + 1
    /\ c_pc' = "for_result"
    /\ UNCHANGED <<command, c_args, c_exit, config_before, config_data, load_calls, c_log,
                   applied, c_results, c_bucket>>
    /\ UNCHANGED <<helperVars, athenaVars, bucketVars, raceVars, classVars,
                   legacyVars, policyVars, perfVars, tableVars, restoreVars>>

NextCommands ==
    \/ LoadConfig
    \/ DefaultBucket
    \/ Transfer
    \/ DeleteObject
    \/ RunAthenaQuery
    \/ Provision
    \/ SaveConfig
    \/ DeleteBuckets
    \/ ForResult
    \/ UpdateConfig

SpecCommands == InitCommands /\ [][NextCommands]_vars

\* s3_setup keeps what it applied, and a command that raised runs no statement
NoRollback ==
    /\ c_pc # "raised"
    /\ command = "s3 setup"
         => /\ Len(applied') >= Len(applied)
            /\ SubSeq(applied', 1, Len(applied)) = applied

\* s3_setup that raised: the steps before the failed one are applied, in order,
\* and config.json is as it was
StepsStayApplied ==
    (command = "s3 setup" /\ c_pc = "raised")
        => /\ applied = SubSeq(SetupSteps, 1, c_i)
           /\ Len(c_log) = c_i + 1
           /\ c_writes = 0 /\ config_json = config_before

\* C11: when a provisioning step of s3_setup fails, the command stops, and the
\* steps applied before it stay applied: no step of the command removes a
\* bucket or a setting it applied, and the applied steps are the steps that ran
\* before the failed one.
C11_NoRollback == []StepsStayApplied /\ [][NoRollback]_vars

C11_Witness ==
    /\ command = "s3 setup" /\ c_pc = "raised"
    /\ Len(applied) = 10 /\ c_log[11].op = "create_bucket"
    /\ applied[1] = [op |-> "create_bucket", role |-> "images_bucket"]

\* C12 as claimed: a command that load_config ended has issued no request.
C12_NoRequestAsClaimed ==
    (c_pc = "exited") => (c_exit = 1 /\ c_log = <<>>)

\* C12: when config.json is missing or not JSON, the first call of load_config
\* ends the command with exit status 1 and no statement runs after it; a
\* command other than delete-bucket has then issued no request, and
\* delete-bucket has issued the deletion requests of delete_multiple_buckets,
\* one delete_bucket call per name, and those only.
C12_ExitAtLoadConfig ==
    (config_json.file # "json" /\ load_calls > 0)
        => /\ c_pc = "exited" /\ c_exit = 1 /\ load_calls = 1
           /\ command # "s3 delete-bucket" => c_log = <<>>
           /\ command = "s3 delete-bucket"
                => /\ Len(c_log) = Len(c_args.bucket_names)
                   /\ \A i \in DOMAIN c_log :
                         c_log[i] = [op |-> "delete_bucket",
                                     bucket |-> c_args.bucket_names[i]]
                   /\ HasBeenDeleted(c_results[c_i + 1])

C12_Witness ==
    /\ c_pc = "exited" /\ c_exit = 1 /\ config_json.file = "malformed"
    /\ command = "s3 delete-bucket" /\ c_i = 1 /\ Len(c_log) = 2

\* the names of the buckets the results handled so far report as deleted
DeletedSoFar == {c_results[i][2] : i \in {j \in 1..c_i : HasBeenDeleted(c_results[j])}}

\* C13 as claimed: only setup writes config.json, at most once.
C13_OnlySetupWrites ==
    /\ command # "s3 setup" => (c_writes = 0 /\ config_json = config_before)
    /\ command = "s3 setup" => c_writes <= 1

\* C13: setup writes config.json once, as its last statement, and not at all when
\* a step failed; delete-bucket writes it once for each deleted bucket whose name
\* is a value of it when update_config_after_deletion loads it, and leaves it
\* alone when no deleted name is a value of it; upload, download, delete-file
\* and run-query never write it.
C13_SetupAndDeleteWrite ==
    /\ command \in {"s3 upload", "s3 download", "s3 delete-file", "athena run-query"}
         => (c_writes = 0 /\ config_json = config_before)
    /\ command = "s3 setup"
         => /\ c_writes = (IF c_pc = "done" THEN 1 ELSE 0)
            /\ c_pc # "done" => config_json = config_before
    /\ command = "s3 delete-bucket"
         => /\ c_writes <= Cardinality(DeletedSoFar)
            /\ (\A n \in DeletedSoFar : ~NeedsSave(n, config_before.data))
                 => (c_writes = 0 /\ config_json = config_before)

C13_Witness ==
    /\ command = "s3 delete-bucket" /\ c_pc = "done" /\ c_writes = 1
    /\ config_before.data["data_bucket"] = "patient-data-1"
    /\ config_json.data["data_bucket"] = Null
    /\ Len(c_results) = 2

\* the key of config.json a command reads its bucket name from
RoleOf(cmd, args) ==
    CASE cmd \in {"s3 upload", "s3 download"} -> DefaultBucketKey(args.filename)
      [] cmd = "s3 delete-file" -> "data_bucket"
      [] OTHER -> "athena_output_bucket"

\* C14: a command that needs a bucket role, run with a config.json that has no
\* usable name for the role (the key is absent or null), issues no service
\* request and does not complete.
C14_FailsBeforeAnyRequest ==
    (/\ command \in {"s3 upload", "s3 download", "s3 delete-file", "athena run-query"}
     /\ config_json.file = "json"
     /\ config_json.data[RoleOf(command, c_args)] \in {Absent, Null})
        => (c_log = <<>> /\ c_pc # "done")

(***************************************************************************)
(* Properties of generate_filename                                         *)
(***************************************************************************)
\* the positions of the first token of a list that equals x (none or one)
FirstToken(words, x) ==
    {i \in DOMAIN words : words[i] = x /\ \A j \in 1..(i - 1) : words[j] # x}

\* what follows the last period of a token, the whole token when it has none
AfterLastPeriod(token) ==
    LET dots == {k \in DOMAIN token : token[k] = "."}
        last == IF dots = {} THEN 0 ELSE CHOOSE k \in dots : \A m \in dots : m <= k
    IN  SubSeq(token, last + 1, Len(token))

\* the table name of a query: the token after its first `from` token, cut to what
\* follows its last period; `unknown` without a `from` token or a token after it
TableNameOf(q) ==
    LET words == Split(Lower(q))
        first == FirstToken(words, W_from)
    IN  IF first = {} \/ \A i \in first : i = Len(words)
        THEN W_unknown
        ELSE AfterLastPeriod(words[(CHOOSE i \in first : TRUE) + 1])

\* the action segment of a query with a `select` token: the tokens after the
\* first one, three at most, with underscores between them, `*` written `all`
\* and commas left out
ActionSegmentOf(q) ==
    LET words == Split(Lower(q))
        i == CHOOSE k \in FirstToken(words, W_select) : TRUE
        n == IF Len(words) - i < 3 THEN Len(words) - i ELSE 3
        joined == CASE n = 0 -> <<>>
                    [] n = 1 -> words[i + 1]
                    [] n = 2 -> words[i + 1] \o <<"_">> \o words[i + 2]
                    [] OTHER -> words[i + 1] \o <<"_">> \o words[i + 2] \o <<"_">> \o words[i + 3]
    IN  Replace(Replace(joined, "*", W_all), ",", <<>>)

HasSelect(q) == FirstToken(Split(Lower(q)), W_select) # {}

\* the date and the table name of a returned name, up to the action segment
NamePrefix(q, now) == Sanitize(FormatDate(now) \o <<"_">> \o TableNameOf(q) \o <<"_">>)

\* C21: the name generate_filename returns is built from the table name (the
\* token after the first `from` token of the lower-cased query, cut to its last
\* dot-separated segment, `unknown` without a `from` token or a token after it)
\* and, for a query with a `select` token, from the action segment (the tokens
\* after the first `select` token, three at most, joined by underscores, `*`
\* replaced by `all`, commas removed).
C21_TableAndAction ==
    h_pc = "returned_filename"
        => /\ StartsWith(h_name, NamePrefix(h_query, h_now))
           /\ HasSelect(h_query)
                => h_name = NamePrefix(h_query, h_now)
                            \o Sanitize(Slice(ActionSegmentOf(h_query), 0, ActionMax))

C21_Witness ==
    /\ h_pc = "returned_filename" /\ h_query = Q_Newline
    /\ TableNameOf(h_query) = <<"t">>
    /\ ActionSegmentOf(h_query) = <<"a", "b", "_", "f", "r", "o", "m", "_", "d", "b", ".", "s", ".", "t">>
    /\ Len(h_name) = 8 + 1 + 1 + 1 + 14

\* C22: the name generate_filename returns holds only letters, digits,
\* underscores and periods, and what follows its date and table name is at most
\* 50 characters long.
C22_SafeCharactersAndLength ==
    h_pc = "returned_filename"
        => /\ \A i \in DOMAIN h_name : IsAlnum(h_name[i]) \/ h_name[i] \in {"_", "."}
           /\ Len(h_name) - (Len(FormatDate(h_now)) + 1
                             + Len(Sanitize(TableNameOf(h_query))) + 1) <= ActionMax

C22_Witness ==
    /\ h_pc = "returned_filename" /\ h_query = Q_Long
    /\ Len(ActionSegmentOf(h_query)) = 64
    /\ Len(TableNameOf(h_query)) = 4
    /\ Len(h_name) = 8 + 1 + 2 + 1 + ActionMax

(***************************************************************************)
(* Properties of create_bucket's existence check                           *)
(***************************************************************************)
\* what the step after the existence check does, by the code the check answered
ExistenceCheckDecides ==
    (b_pc = "head_bucket" /\ b_pc' # b_pc)
        => LET response == HeadBucketResponse(cb_name)
           IN  /\ (b_pc' = "create_bucket") <=> (response.error /\ response.code = Code_404)
               /\ (response.error /\ response.code # Code_404)
                    => /\ b_pc' = "idle"
                       /\ last_call'.raised = [op |-> "head_bucket", code |-> response.code]
                       /\ last_call'.creates = 0
                       /\ buckets' = buckets
                       /\ create_request' = create_request

\* a create request is issued by the step that follows a 404 and by no other
CreateOnlyAfter404 ==
    (cb_creates' > cb_creates \/ create_request' # create_request)
        => (b_pc = "create_bucket" /\ HeadBucketResponse(cb_name).code = Code_404)

\* C29: create_bucket issues its create request only when the existence check
\* failed with code 404; a check that failed with another code (403) ends the
\* call with that error raised, no create request issued and the buckets as
\* they were.
C29_CreateOnlyOn404 ==
    /\ [][ExistenceCheckDecides /\ CreateOnlyAfter404]_vars
    /\ []((b_pc = "idle" /\ last_call.kind = "create_bucket"
           /\ last_call.raised.op = "head_bucket")
            => (last_call.creates = 0 /\ last_call.raised.code # Code_404))

C29_Witness ==
    /\ b_pc = "idle" /\ last_call.kind = "create_bucket"
    /\ last_call.raised = [op |-> "head_bucket", code |-> Code_403]
    /\ last_call.creates = 0 /\ last_call.name \in ForeignNames
    /\ prev_call.kind = "create_bucket" /\ prev_call.creates = 1
    /\ buckets # {}

(***************************************************************************)
(* Properties of config.json under setup and delete-bucket                 *)
(***************************************************************************)
ProvisioningCalls ==
    {"create_bucket", "enable_versioning", "set_lifecycle_policy", "set_bucket_policy",
     "enable_encryption"}

\* every provisioning call of every role has been made for the name the command
\* generated for the role, and none of them failed
AllStepsSucceeded ==
    /\ Len(applied) = Len(c_log)
    /\ \A role \in ConfigKeys, op \in ProvisioningCalls :
          \E i \in DOMAIN applied :
              /\ applied[i] = [op |-> op, role |-> role]
              /\ c_log[i] = [op |-> op, bucket |-> c_args.names[role]]

\* C26: setup writes config.json only when every provisioning step of the three
\* buckets has succeeded; a run in which a step raised leaves the file as it
\* was; and the file setup writes maps each of the three roles to the name of
\* the bucket the run created for it.
C26_ConfigSavedAfterAllSteps ==
    command = "s3 setup"
        => /\ c_writes > 0
                => /\ AllStepsSucceeded
                   /\ c_writes = 1
                   /\ config_json.file = "json"
                   /\ \A role \in ConfigKeys :
                        \E i \in DOMAIN c_log :
                            c_log[i] = [op |-> "create_bucket",
                                        bucket |-> config_json.data[role]]
                            /\ applied[i].role = role
           /\ c_writes = 0 => config_json = config_before
           /\ c_pc = "raised" => c_writes = 0

C26_Witness ==
    /\ command = "s3 setup" /\ c_pc = "done" /\ c_writes = 1
    /\ config_before.file = "malformed"
    /\ config_json.data["athena_output_bucket"] = "athena-query-results-2"
    /\ Len(applied) = 15

\* C27: in delete-bucket the configuration changes only for the names reported
\* deleted: of the configuration the command found, every role whose value is
\* such a name holds null, every other role holds the value it had, and the
\* roles are the roles it had; a name whose deletion failed changes nothing.
C27_OnlyDeletedNamesNulled ==
    command = "s3 delete-bucket"
        => /\ config_json.file = config_before.file
           /\ \A k \in ConfigKeys :
                config_json.data[k] = IF config_before.data[k] \in DeletedSoFar
                                      THEN Null
                                      ELSE config_before.data[k]

C27_Witness ==
    /\ command = "s3 delete-bucket" /\ c_pc = "done"
    /\ c_args.bucket_names = <<"scratch-bucket", "patient-data-1">>
    /\ HasBeenDeleted(c_results[2]) /\ ~HasBeenDeleted(c_results[1])
    /\ config_before.data["data_bucket"] = "patient-data-1"
    /\ config_before.data["athena_output_bucket"] = Null
    /\ config_json.data["data_bucket"] = Null
    /\ config_json.data["images_bucket"] = "medical-images-1"

(***************************************************************************)
(* src/s3_setup.py: the create_bucket of the single-file script, called    *)
(* for the same name and from the same account as the one of s3_module     *)
(***************************************************************************)
REGION_NAME == "us-east-1"

\* the buckets the account can hold when create_bucket is called
BucketSets ==
    {bs \in SUBSET [name : OwnNames, region : Regions] :
        \A a, b \in bs : a.name = b.name => a = b}

\* one of the two functions is called for one name, in REGION_NAME
InitLegacy ==
    /\ HelpersOff /\ AthenaOff /\ RaceOff /\ ClassOff /\ CommandsOff
    /\ PolicyOff /\ PerfOff /\ TableOff /\ RestoreOff
    /\ buckets \in BucketSets /\ object_versions = {}
    /\ lg_before = buckets /\ lg_after = {}
    /\ b_pc \in {"legacy_create_bucket", "head_bucket"}
    /\ cb_name \in BucketNames \cup SharedNames /\ cb_region = REGION_NAME
    /\ cb_creates = 0 /\ create_request = NoRequest
    /\ prev_call = NoCall /\ last_call = NoCall
    /\ dm_names = <<>> /\ dm_i = 0 /\ results = <<>> /\ attempts = <<>>
    /\ db_before = {} /\ db_outcome = NoOutcome /\ db_requests = <<>>

\* faulty variant: the handler tolerates every error code
LegacyExceptTolerant(code) == NoS3Error

\* except ClientError as e: if e.response['Error']['Code'] == 'BucketAlreadyOwnedByYou':
\* print(...) else: print(...); raise
LegacyExcept(code) ==
    IF code = Code_BucketAlreadyOwnedByYou THEN NoS3Error
    ELSE [op |-> "create_bucket", code |-> code]

\* src/s3_setup.py create_bucket: s3_client.create_bucket(...) without a check
\* before it, and the handler of its ClientError
LegacyCreateBucket ==
    /\ b_pc = "legacy_create_bucket"
    /\ create_request' = CreateRequest(cb_name, REGION_NAME)
    /\ cb_creates' = cb_creates + 1
    /\ LET response == CreateBucketResponse(cb_name, REGION_NAME)
       IN  /\ buckets' = IF response.error \/ Owned(cb_name)
                         THEN buckets
                         ELSE buckets \cup {[name |-> cb_name, region |-> REGION_NAME]}
           /\ EndCall([kind |-> "legacy create_bucket", name |-> cb_name,
                       region |-> REGION_NAME,
                       raised |-> IF response.error THEN LegacyExcept(response.code)
                                                    ELSE NoS3Error,
                       creates |-> cb_creates + 1])
    /\ UNCHANGED <<cb_name, cb_region, dm_names, dm_i, results, attempts, db_before,
                   db_outcome, db_requests, object_versions, legacyVars>>
    /\ UNCHANGED <<helperVars, athenaVars, raceVars, classVars, commandVars,
                   policyVars, perfVars, tableVars, restoreVars>>

\* the other function is called for the same name, from the account as it was
\* before the first call
SecondCall ==
    /\ b_pc = "idle" /\ prev_call = NoCall /\ last_call # NoCall
    /\ lg_after' = buckets
    /\ buckets' = lg_before
    /\ b_pc' = IF last_call.kind = "create_bucket" THEN "legacy_create_bucket"
                                                   ELSE "head_bucket"
    /\ cb_creates' = 0 /\ create_request' = NoRequest
    /\ UNCHANGED <<cb_name, cb_region, prev_call, last_call, dm_names, dm_i, results,
                   attempts, db_before, db_outcome, db_requests, object_versions, lg_before>>
    /\ UNCHANGED <<helperVars, athenaVars, raceVars, classVars, commandVars,
                   policyVars, perfVars, tableVars, restoreVars>>

NextLegacy == LegacyCreateBucket \/ HeadBucket \/ CreateBucket \/ SecondCall

SpecLegacy == InitLegacy /\ [][NextLegacy]_vars

\* both functions have been called for the name
BothCalled == b_pc = "idle" /\ prev_call # NoCall /\ last_call # NoCall

\* the two calls left the same buckets and both raised or both returned
SameOutcome ==
    /\ buckets = lg_after
    /\ (prev_call.raised = NoS3Error) <=> (last_call.raised = NoS3Error)

\* C30 (as claimed): in us-east-1 the create_bucket of src/s3_setup.py and the
\* create_bucket of s3_module, called for the same name from the same account,
\* leave the same buckets and both raise or both return, whether the name was
\* absent, a bucket of the caller, or a bucket of someone else.
C30_SameOutcomeAsClaimed == BothCalled => SameOutcome

\* C30 (amended): the same, for a name that was absent, a bucket of the caller,
\* or a bucket of someone else that the caller has no access to; for a bucket of
\* someone else that the caller may list, the function of s3_module returns
\* and the function of src/s3_setup.py raises.
C30_SameOutcome ==
    BothCalled
        => /\ last_call.name \notin SharedNames => SameOutcome
           /\ last_call.name \in SharedNames
                => /\ buckets = lg_after
                   /\ \A call \in {prev_call, last_call} :
                        (call.raised = NoS3Error) <=> (call.kind = "create_bucket")

C30_Witness ==
    /\ BothCalled /\ last_call.kind = "create_bucket" /\ prev_call.kind = "legacy create_bucket"
    /\ last_call.name \in ForeignNames
    /\ prev_call.raised = [op |-> "create_bucket", code |-> Code_BucketAlreadyExists]
    /\ last_call.raised = [op |-> "head_bucket", code |-> Code_403]
    /\ prev_call.creates = 1 /\ last_call.creates = 0
    /\ lg_before # {} /\ buckets = lg_before

(***************************************************************************)
(* s3_module/s3_setup.py: enable_versioning, set_lifecycle_policy,         *)
(* set_bucket_policy, enable_encryption                                    *)
(***************************************************************************)
\* set_lifecycle_policy: lifecycle_configuration['Rules']
LifecycleRules ==
    <<[ID |-> "Move to Intelligent-Tiering after 30 days", Status |-> "Enabled",
       Prefix |-> "",
       Transitions |-> <<[Days |-> 30, StorageClass |-> "INTELLIGENT_TIERING"],
                         [Days |-> 90, StorageClass |-> "GLACIER"],
                         [Days |-> 180, StorageClass |-> "DEEP_ARCHIVE"]>>]>>

\* set_bucket_policy: policy['Statement'] for the bucket data_bucket
PolicyStatement(data_bucket) ==
    <<[Sid |-> "AllowAthenaAccessToDataBucket", Effect |-> "Allow",
       Principal |-> "athena.amazonaws.com",
       Action |-> <<"s3:GetBucketLocation", "s3:GetObject", "s3:ListBucket">>,
       Resource |-> <<<<"arn:aws:s3:::", data_bucket>>,
                      <<"arn:aws:s3:::", data_bucket, "/*">>>>]>>

\* settings a bucket can have before the functions are called
OtherRules ==
    <<[ID |-> "Expire after a year", Status |-> "Enabled", Prefix |-> "",
       Transitions |-> <<[Days |-> 365, StorageClass |-> "GLACIER"]>>]>>

OtherStatement(data_bucket) ==
    <<[Sid |-> "AllowOwner", Effect |-> "Allow", Principal |-> "owner",
       Action |-> <<"s3:GetObject">>,
       Resource |-> <<<<"arn:aws:s3:::", data_bucket, "/*">>>>]>>

\* bucket_versioning.enable(): S3 sets the versioning state of the bucket
enable_versioning(bucket) == [bucket EXCEPT !.versioning = "Enabled"]

\* put_bucket_lifecycle_configuration: S3 replaces the lifecycle rules of the bucket
set_lifecycle_policy(bucket) == [bucket EXCEPT !.lifecycle = LifecycleRules]

\* put_bucket_policy: S3 replaces the policy of the bucket
set_bucket_policy(bucket) == [bucket EXCEPT !.policy = PolicyStatement(bucket.name)]

\* faulty variant: the encryption request also removes the bucket's policy
enable_encryption_clears_policy(bucket) ==
    [bucket EXCEPT !.encryption = "AES256", !.policy = <<>>]

\* put_bucket_encryption: S3 replaces the default encryption of the bucket
enable_encryption(bucket) == [bucket EXCEPT !.encryption = "AES256"]

PolicyFunctions ==
    {"enable_versioning", "set_lifecycle_policy", "set_bucket_policy", "enable_encryption"}

\* the orders the four functions can be called in
Orders ==
    {o \in [1..4 -> PolicyFunctions] : \A i, j \in 1..4 : o[i] = o[j] => i = j}

InitPolicy ==
    /\ HelpersOff /\ AthenaOff /\ BucketsOff /\ RaceOff /\ ClassOff
    /\ CommandsOff /\ LegacyOff /\ PerfOff /\ TableOff /\ RestoreOff
    /\ po_pc = "call" /\ po_i = 0
    /\ po_order \in Orders
    /\ \E name \in OwnNames :
          po_bucket \in [name : {name},
                         versioning : {"", "Suspended"},
                         lifecycle : {<<>>, OtherRules},
                         policy : {<<>>, OtherStatement(name)},
                         encryption : {"", "aws:kms"}]
    /\ po_before = po_bucket

\* what the function called fn does to the bucket when its request succeeds
Applied(fn, bucket) ==
    CASE fn = "enable_versioning" -> enable_versioning(bucket)
      [] fn = "set_lifecycle_policy" -> set_lifecycle_policy(bucket)
      [] fn = "set_bucket_policy" -> set_bucket_policy(bucket)
      [] OTHER -> enable_encryption(bucket)

\* the next of the four functions is called: its request is applied, or it
\* raises the ClientError again and the calls after it are not made
CallPolicyFunction ==
    /\ po_pc = "call"
    /\ \/ /\ po_bucket' = Applied(po_order[po_i + 1], po_bucket)
          /\ po_i' = po_i + 1
          /\ po_pc' = IF po_i + 1 = Len(po_order) THEN "done" ELSE "call"
       \/ /\ po_pc' = "raised"
          /\ UNCHANGED <<po_bucket, po_i>>
    /\ UNCHANGED <<po_order, po_before>>
    /\ UNCHANGED <<helperVars, athenaVars, bucketVars, raceVars, classVars, commandVars,
                   legacyVars, perfVars, tableVars, restoreVars>>

NextPolicy == CallPolicyFunction

SpecPolicy == InitPolicy /\ [][NextPolicy]_vars

\* the setting each function is for
SettingOf(fn) ==
    CASE fn = "enable_versioning" -> "versioning"
      [] fn = "set_lifecycle_policy" -> "lifecycle"
      [] fn = "set_bucket_policy" -> "policy"
      [] OTHER -> "encryption"

\* a call that returned left the name and the settings of the other functions
OwnSettingOnly ==
    po_i' = po_i + 1
        => \A a \in {"name", "versioning", "lifecycle", "policy", "encryption"} :
              a # SettingOf(po_order[po_i + 1]) => po_bucket'[a] = po_bucket[a]

\* C23: the four policy functions, called for an existing bucket in any order,
\* leave the bucket with the settings that the order of s3_setup leaves it
\* with, and each call changes the setting its function is for and no other.
C23_OrderInsensitive ==
    /\ [](po_pc = "done"
            => po_bucket = enable_encryption(set_bucket_policy(
                               set_lifecycle_policy(enable_versioning(po_before)))))
    /\ [][OwnSettingOnly]_vars

C23_Witness ==
    /\ po_pc = "done"
    /\ po_order = <<"enable_encryption", "set_bucket_policy", "set_lifecycle_policy",
                    "enable_versioning">>
    /\ po_before.versioning = "Suspended" /\ po_before.policy # <<>>
    /\ po_before.lifecycle = OtherRules /\ po_before.encryption = "aws:kms"
    /\ po_bucket.versioning = "Enabled" /\ po_bucket.lifecycle = LifecycleRules
    /\ po_bucket.encryption = "AES256"

(***************************************************************************)
(* athena_module/athena_operations.py: performance_test_select_query       *)
(***************************************************************************)
MaxIterations == 3

\* time.time() differences, in seconds, and DataScannedInBytes of an execution
Durations == {1, 2}
ScannedBytes == {1024}

RECURSIVE GCD(_, _)
GCD(a, b) == IF b = 0 THEN a ELSE GCD(b, a % b)

\* total / iterations: the quotient as a fraction in lowest terms
Divide(total, iterations) ==
    LET d == GCD(total, iterations)
    IN  [num |-> total \div d, den |-> iterations \div d]

InitPerf ==
    /\ HelpersOff /\ AthenaOff /\ BucketsOff /\ RaceOff /\ ClassOff
    /\ CommandsOff /\ LegacyOff /\ PolicyOff /\ TableOff /\ RestoreOff
    /\ pt_iterations \in 0..MaxIterations
    /\ pt_pc = "for" /\ pt_i = 0
    /\ pt_execution = "NONE" /\ pt_status = "NONE" /\ pt_polls = 0 /\ pt_starts = 0
    /\ pt_total_time = 0 /\ pt_total_bytes = 0 /\ pt_log = <<>>
    /\ pt_result = NoAverages

\* for i in range(iterations): start_time = time.time() and
\* athena_client.start_query_execution(...), whose ClientError leaves the
\* function; after the last iteration the averages are computed
ForIteration ==
    /\ pt_pc = "for"
    /\ IF pt_i < pt_iterations
       THEN /\ pt_starts' = pt_starts + 1
            /\ \/ /\ pt_execution' = "QUEUED"
                  /\ pt_pc' = "poll"
               \/ /\ pt_pc' = "raised"
                  /\ UNCHANGED pt_execution
            /\ pt_polls' = 0 /\ pt_status' = "NONE"
       ELSE /\ pt_pc' = "average"
            /\ UNCHANGED <<pt_starts, pt_execution, pt_polls, pt_status>>
    /\ UNCHANGED <<pt_iterations, pt_i, pt_total_time, pt_total_bytes, pt_log, pt_result>>
    /\ UNCHANGED <<helperVars, athenaVars, bucketVars, raceVars, classVars, commandVars,
                   legacyVars, policyVars, tableVars, restoreVars>>

\* Athena runs the execution of the current iteration
PerfAdvance ==
    /\ pt_execution \in {"QUEUED", "RUNNING"}
    /\ pt_execution' \in (IF pt_execution = "QUEUED" THEN {"RUNNING"} ELSE {})
                         \cup {"SUCCEEDED", "FAILED", "CANCELLED"}
    /\ UNCHANGED <<pt_pc, pt_iterations, pt_i, pt_status, pt_polls, pt_starts,
                   pt_total_time, pt_total_bytes, pt_log, pt_result>>
    /\ UNCHANGED <<helperVars, athenaVars, bucketVars, raceVars, classVars, commandVars,
                   legacyVars, policyVars, tableVars, restoreVars>>

\* while True: query_status = athena_client.get_query_execution(...);
\* if status in ['SUCCEEDED', 'FAILED', 'CANCELLED']: break; time.sleep(1)
PerfPoll ==
    /\ pt_pc = "poll"
    /\ pt_polls < MaxPolls
    /\ pt_polls' = pt_polls + 1
    /\ \/ /\ pt_status' = pt_execution
          /\ pt_pc' = IF pt_execution \in {"SUCCEEDED", "FAILED", "CANCELLED"}
                      THEN "end_time" ELSE "poll"
       \/ /\ pt_pc' = "raised"
          /\ UNCHANGED pt_status
    /\ UNCHANGED <<pt_iterations, pt_i, pt_execution, pt_starts, pt_total_time,
                   pt_total_bytes, pt_log, pt_result>>
    /\ UNCHANGED <<helperVars, athenaVars, bucketVars, raceVars, classVars, commandVars,
                   legacyVars, policyVars, tableVars, restoreVars>>

\* faulty variant: every iteration is added to the totals
AddsToTotalsAlways(status) == TRUE

\* if status == 'SUCCEEDED':
AddsToTotals(status) == status = "SUCCEEDED"

\* end_time = time.time(); execution_time = end_time - start_time;
\* if status == 'SUCCEEDED': the two totals are increased
Accumulate ==
    /\ pt_pc = "end_time"
    /\ \E execution_time \in Durations, scanned \in ScannedBytes :
          /\ IF AddsToTotals(pt_status)
             THEN /\ pt_total_time' = pt_total_time + execution_time
                  /\ pt_total_bytes' = pt_total_bytes + scanned
             ELSE UNCHANGED <<pt_total_time, pt_total_bytes>>
          /\ pt_log' = Append(pt_log, [status |-> pt_status,
                                       execution_time |-> execution_time,
                                       DataScannedInBytes |-> scanned])
    /\ pt_i' = pt_i + 1
    /\ pt_pc' = "for"
    /\ UNCHANGED <<pt_iterations, pt_execution, pt_status, pt_polls, pt_starts, pt_result>>
    /\ UNCHANGED <<helperVars, athenaVars, bucketVars, raceVars, classVars, commandVars,
                   legacyVars, policyVars, tableVars, restoreVars>>

\* avg_... = total_... / iterations (ZeroDivisionError for no iterations); return
Average ==
    /\ pt_pc = "average"
    /\ IF pt_iterations = 0
       THEN /\ pt_pc' = "raised"
            /\ UNCHANGED pt_result
       ELSE /\ pt_result' =
                  [average_execution_time |-> Divide(pt_total_time, pt_iterations),
                   average_scanned_bytes |-> Divide(pt_total_bytes, pt_iterations)]
            /\ pt_pc' = "returned"
    /\ UNCHANGED <<pt_iterations, pt_i, pt_execution, pt_status, pt_polls, pt_starts,
                   pt_total_time, pt_total_bytes, pt_log>>
    /\ UNCHANGED <<helperVars, athenaVars, bucketVars, raceVars, classVars, commandVars,
                   legacyVars, policyVars, tableVars, restoreVars>>

NextPerf == ForIteration \/ PerfAdvance \/ PerfPoll \/ Accumulate \/ Average

SpecPerf == InitPerf /\ [][NextPerf]_vars

\* the sum of one measure over the iterations of the log that ended SUCCEEDED
RECURSIVE SumSucceeded(_, _)
SumSucceeded(log, measure) ==
    IF log = <<>> THEN 0
    ELSE (IF Head(log).status = "SUCCEEDED" THEN Head(log)[measure] ELSE 0)
         + SumSucceeded(Tail(log), measure)

\* the fraction equals total / n
IsQuotient(fraction, total, n) ==
    fraction.den > 0 /\ fraction.num * n = fraction.den * total

\* C24: performance_test_select_query that returns for n >= 1 iterations has
\* submitted n queries, one per iteration, and each average it returns is the
\* sum of the measure over the iterations that ended SUCCEEDED divided by n;
\* an iteration that ended FAILED or CANCELLED adds to neither total.
C24_AveragesOverAllIterations ==
    /\ pt_total_time = SumSucceeded(pt_log, "execution_time")
    /\ pt_total_bytes = SumSucceeded(pt_log, "DataScannedInBytes")
    /\ pt_pc = "returned"
         => /\ pt_iterations >= 1
            /\ pt_starts = pt_iterations
            /\ Len(pt_log) = pt_iterations
            /\ IsQuotient(pt_result.average_execution_time,
                          SumSucceeded(pt_log, "execution_time"), pt_iterations)
            /\ IsQuotient(pt_result.average_scanned_bytes,
                          SumSucceeded(pt_log, "DataScannedInBytes"), pt_iterations)

C24_Witness ==
    /\ pt_pc = "returned" /\ pt_iterations = 3 /\ pt_starts = 3
    /\ pt_log[1].status = "FAILED" /\ pt_log[2].status = "SUCCEEDED"
    /\ pt_log[3].status = "CANCELLED"
    /\ pt_result.average_execution_time = [num |-> 2, den |-> 3]
    /\ pt_result.average_scanned_bytes = [num |-> 1024, den |-> 3]

(***************************************************************************)
(* athena_module/athena_operations.py: create_athena_database_and_table    *)
(***************************************************************************)
\* the text of the three statements around the names; of the column list of the
\* third statement only the first line is kept
S_CreateDatabase ==
    <<"C", "R", "E", "A", "T", "E", " ", "D", "A", "T", "A", "B", "A", "S", "E", " ", "I", "F", " ", "N", "O", "T", " ", "E", "X", "I", "S", "T", "S", " ">>

S_DropTable ==
    <<"D", "R", "O", "P", " ", "T", "A", "B", "L", "E", " ", "I", "F", " ", "E", "X", "I", "S", "T", "S", " ">>

S_CreateTable ==
    <<"\n", " ", " ", " ", " ", "C", "R", "E", "A", "T", "E", " ", "E", "X", "T", "E", "R", "N", "A", "L", " ", "T", "A", "B", "L", "E", " ">>

S_Columns ==
    <<" ", "(", "\n", " ", " ", " ", " ", " ", " ", " ", " ", "p", "a", "t", "i", "e", "n", "t", "_", "i", "d", " ", "S", "T", "R", "I", "N", "G", ",">>

ATHENA_DATABASE ==
    <<"m", "e", "d", "i", "c", "a", "l", "_", "d", "a", "t", "a">>

ATHENA_TABLE ==
    <<"p", "a", "t", "i", "e", "n", "t", "_", "d", "a", "t", "a">>

\* create_db_query, drop_table_query, create_table_query
Statements(database_name, table_name) ==
    <<S_CreateDatabase \o database_name,
      S_DropTable \o database_name \o <<".">> \o table_name,
      S_CreateTable \o database_name \o <<".">> \o table_name \o S_Columns>>

InitTable ==
    /\ HelpersOff /\ AthenaOff /\ BucketsOff /\ RaceOff /\ ClassOff
    /\ CommandsOff /\ LegacyOff /\ PolicyOff /\ PerfOff /\ RestoreOff
    /\ ct_pc = "load_config" /\ ct_config \in ConfigFiles
    /\ ct_i = 0 /\ ct_log = <<>>

\* config = load_config(); the first run_athena_query(create_db_query, ...,
\* config['athena_output_bucket'], ...) is called (KeyError without the key)
TableLoadConfig ==
    /\ ct_pc = "load_config"
    /\ IF load_config(ct_config).exit
       THEN /\ ct_pc' = "exited"
            /\ UNCHANGED <<aq_pc, aq_query>>
       ELSE IF load_config(ct_config).data["athena_output_bucket"] = Absent
            THEN /\ ct_pc' = "raised"
                 /\ UNCHANGED <<aq_pc, aq_query>>
            ELSE /\ ct_pc' = "run_athena_query"
                 /\ aq_pc' = "start"
                 /\ aq_query' = Statements(ATHENA_DATABASE, ATHENA_TABLE)[1]
    /\ UNCHANGED <<aq_now, execution, state, query_results, stored_key,
                   nStart, nPoll, nFetch, nStore, aq_thrown, aq_caller>>
    /\ UNCHANGED <<ct_config, ct_i, ct_log>>
    /\ UNCHANGED <<helperVars, bucketVars, raceVars, classVars, commandVars,
                   legacyVars, policyVars, perfVars, restoreVars>>

\* faulty variant: the statements after a failed one are not run
AfterRunAthenaQueryChecked(i, final_state) ==
    IF i < 3 /\ final_state = "SUCCEEDED" THEN "start" ELSE "off"

\* create_athena_database_and_table does not look at how the execution ended:
\* after the i-th call of run_athena_query returned, the next one is made, and
\* the function returns after the third
AfterRunAthenaQuery(i, final_state) == IF i < 3 THEN "start" ELSE "off"

\* run_athena_query returned; the next statement is run or the function returns
NextStatement ==
    /\ ct_pc = "run_athena_query" /\ aq_pc = "done"
    /\ ct_log' = Append(ct_log, [statement |-> aq_query, state |-> state,
                                 execution |-> execution])
    /\ ct_i' = ct_i + 1
    /\ aq_pc' = AfterRunAthenaQuery(ct_i + 1, state)
    /\ IF aq_pc' = "start"
       THEN /\ aq_query' = Statements(ATHENA_DATABASE, ATHENA_TABLE)[ct_i + 2]
            /\ execution' = "NONE" /\ state' = "NONE" /\ nPoll' = 0
            /\ UNCHANGED ct_pc
       ELSE /\ ct_pc' = "returned"
            /\ UNCHANGED <<aq_query, execution, state, nPoll>>
    /\ UNCHANGED <<aq_now, query_results, stored_key, nStart, nFetch, nStore,
                   aq_thrown, aq_caller, ct_config>>
    /\ UNCHANGED <<helperVars, bucketVars, raceVars, classVars, commandVars,
                   legacyVars, policyVars, perfVars, restoreVars>>

\* the statements of run_athena_query that a statement that is no SELECT reaches
NextTable ==
    \/ TableLoadConfig
    \/ StartQueryExecution
    \/ AthenaAdvance
    \/ GetQueryExecution
    \/ CheckState
    \/ BranchOnSelect
    \/ NextStatement

SpecTable == InitTable /\ [][NextTable]_vars

\* the executions the call started that Athena has not ended
NonTerminal ==
    {k \in DOMAIN ct_log : ct_log[k].execution \in {"QUEUED", "RUNNING"}}
        \cup (IF execution \in {"QUEUED", "RUNNING"} THEN {0} ELSE {})

\* the statements submitted so far are the first ones of the three, in order
SubmittedInOrder ==
    /\ Len(ct_log) = ct_i /\ ct_i <= 3
    /\ \A k \in DOMAIN ct_log :
          /\ ct_log[k].statement = Statements(ATHENA_DATABASE, ATHENA_TABLE)[k]
          /\ ct_log[k].state \in {"SUCCEEDED", "FAILED", "CANCELLED"}
          /\ ct_log[k].execution = ct_log[k].state
    /\ nStart <= 3
    /\ nStart \in {ct_i, ct_i + 1}
    /\ nStart = ct_i + 1 => aq_query = Statements(ATHENA_DATABASE, ATHENA_TABLE)[ct_i + 1]
    /\ ct_pc = "returned" => (ct_i = 3 /\ nStart = 3)

\* after one of the first two statements ended, in whatever state, the next one
\* is the statement to submit
GoesOnAfterAnyState ==
    (ct_i' = ct_i + 1 /\ ct_i' < 3)
        => /\ aq_pc' = "start"
           /\ aq_query' = Statements(ATHENA_DATABASE, ATHENA_TABLE)[ct_i' + 1]

\* C25: create_athena_database_and_table submits CREATE DATABASE, DROP TABLE and
\* CREATE EXTERNAL TABLE in this order, each after the execution before it was
\* seen in a final state, so that at most one of its executions is not ended
\* at any time; the next statement is submitted also after an execution that
\* ended FAILED or CANCELLED.
C25_SequentialStatements ==
    /\ [](SubmittedInOrder /\ Cardinality(NonTerminal) <= 1)
    /\ [][GoesOnAfterAnyState]_vars

C25_Witness ==
    /\ ct_pc = "run_athena_query" /\ ct_i = 2 /\ nStart = 3
    /\ ct_log[1].state = "FAILED" /\ ct_log[2].state = "CANCELLED"
    /\ execution = "RUNNING" /\ aq_pc = "poll"
    /\ StartsWith(aq_query, S_CreateTable)

(***************************************************************************)
(* manage.py, cli.py: restore_version                                      *)
(***************************************************************************)
\* filename, and another key that starts with it: Prefix=filename lists both
Filename == "report.csv"
OtherKey == "report.csv.bak"

\* what list_object_versions may answer under Versions
VersionListings ==
    SUBSET {[Key |-> Filename, VersionId |-> "v1"],
            [Key |-> Filename, VersionId |-> "v2"],
            [Key |-> OtherKey, VersionId |-> "v9"]}

\* what it may answer under DeleteMarkers, keys ascending, newest first
MarkerListings ==
    {<<>>,
     <<[Key |-> Filename, VersionId |-> "m1", IsLatest |-> TRUE]>>,
     <<[Key |-> Filename, VersionId |-> "m0", IsLatest |-> FALSE]>>,
     <<[Key |-> Filename, VersionId |-> "m1", IsLatest |-> TRUE],
       [Key |-> Filename, VersionId |-> "m0", IsLatest |-> FALSE]>>,
     <<[Key |-> Filename, VersionId |-> "m0", IsLatest |-> FALSE],
       [Key |-> OtherKey, VersionId |-> "m8", IsLatest |-> TRUE]>>}

VersionIds == {"v1", "v3", "v9"}

InitRestore ==
    /\ HelpersOff /\ AthenaOff /\ BucketsOff /\ RaceOff /\ ClassOff
    /\ CommandsOff /\ LegacyOff /\ PolicyOff /\ PerfOff /\ TableOff
    /\ rv_pc = "load_config" /\ rv_config \in ConfigFiles
    /\ rv_version_id \in VersionIds
    /\ rv_versions \in VersionListings /\ rv_markers \in MarkerListings
    /\ rv_listed = FALSE /\ rv_requests = <<>> /\ rv_echo = <<>>

\* config_data = load_config(); bucket_name = config_data['data_bucket']
RestoreLoadConfig ==
    /\ rv_pc = "load_config"
    /\ rv_pc' = IF load_config(rv_config).exit THEN "exited"
                ELSE IF load_config(rv_config).data["data_bucket"] = Absent
                     THEN "raised"
                     ELSE "list_object_versions"
    /\ UNCHANGED <<rv_version_id, rv_versions, rv_markers, rv_listed, rv_requests,
                   rv_echo, rv_config>>
    /\ UNCHANGED <<helperVars, athenaVars, bucketVars, raceVars, classVars,
                   commandVars, legacyVars, policyVars, perfVars, tableVars>>

\* a request of restore_version and whether S3 answered it with a ClientError
Request(op, version, error) ==
    [op |-> op, Bucket |-> load_config(rv_config).data["data_bucket"],
     Key |-> Filename, VersionId |-> version, error |-> error]

\* versions = s3_client.list_object_versions(Bucket=bucket_name, Prefix=filename);
\* the SDK rejects Bucket=None before it sends anything, and the handler echoes
\* a ClientError
ListObjectVersions ==
    /\ rv_pc = "list_object_versions"
    /\ IF load_config(rv_config).data["data_bucket"] = Null
       THEN /\ rv_pc' = "raised"
            /\ UNCHANGED <<rv_listed, rv_requests, rv_echo>>
       ELSE \E error \in BOOLEAN :
               /\ rv_requests' = Append(rv_requests,
                                        Request("list_object_versions", "", error))
               /\ IF error
                  THEN /\ rv_echo' = Append(rv_echo, "Error restoring version")
                       /\ rv_pc' = "done"
                       /\ UNCHANGED rv_listed
                  ELSE /\ rv_listed' = TRUE
                       /\ rv_pc' = "version_exists"
                       /\ UNCHANGED rv_echo
    /\ UNCHANGED <<rv_version_id, rv_versions, rv_markers, rv_config>>
    /\ UNCHANGED <<helperVars, athenaVars, bucketVars, raceVars, classVars,
                   commandVars, legacyVars, policyVars, perfVars, tableVars>>

\* faulty variant: the version is not looked up in the listing
version_exists_unchecked(versions, version_id) == TRUE

\* any(v['VersionId'] == version_id for v in versions.get('Versions', []))
version_exists(versions, version_id) == \E v \in versions : v.VersionId = version_id

NoMarker == [Key |-> "", VersionId |-> "", IsLatest |-> FALSE]

\* next((m for m in versions.get('DeleteMarkers', []) if m['IsLatest']), None)
delete_marker(markers) ==
    IF \E k \in DOMAIN markers : markers[k].IsLatest
    THEN markers[CHOOSE k \in DOMAIN markers :
                    /\ markers[k].IsLatest
                    /\ \A j \in 1..(k - 1) : ~markers[j].IsLatest]
    ELSE NoMarker

\* if not version_exists: echo and return; if delete_marker: ...
CheckVersion ==
    /\ rv_pc = "version_exists"
    /\ IF ~version_exists(rv_versions, rv_version_id)
       THEN /\ rv_echo' = Append(rv_echo, "does not exist")
            /\ rv_pc' = "done"
       ELSE /\ rv_pc' = IF delete_marker(rv_markers) # NoMarker THEN "delete_object"
                                                               ELSE "copy_object"
            /\ UNCHANGED rv_echo
    /\ UNCHANGED <<rv_version_id, rv_versions, rv_markers, rv_listed, rv_requests,
                   rv_config>>
    /\ UNCHANGED <<helperVars, athenaVars, bucketVars, raceVars, classVars,
                   commandVars, legacyVars, policyVars, perfVars, tableVars>>

\* s3_client.delete_object(Bucket=bucket_name, Key=filename,
\*                         VersionId=delete_marker['VersionId'])
DeleteMarker ==
    /\ rv_pc = "delete_object"
    /\ \E error \in BOOLEAN :
          /\ rv_requests' = Append(rv_requests,
                Request("delete_object", delete_marker(rv_markers).VersionId, error))
          /\ rv_echo' = Append(rv_echo, IF error THEN "Error restoring version"
                                                 ELSE "Removed delete marker")
          /\ rv_pc' = IF error THEN "done" ELSE "copy_object"
    /\ UNCHANGED <<rv_version_id, rv_versions, rv_markers, rv_listed, rv_config>>
    /\ UNCHANGED <<helperVars, athenaVars, bucketVars, raceVars, classVars,
                   commandVars, legacyVars, policyVars, perfVars, tableVars>>

\* s3_client.copy_object(Bucket=bucket_name, CopySource=copy_source, Key=filename)
RestoreCopyObject ==
    /\ rv_pc = "copy_object"
    /\ \E error \in BOOLEAN :
          /\ rv_requests' = Append(rv_requests,
                                   Request("copy_object", rv_version_id, error))
          /\ rv_echo' = Append(rv_echo, IF error THEN "Error restoring version"
                                                 ELSE "Restored version")
          /\ rv_pc' = "done"
    /\ UNCHANGED <<rv_version_id, rv_versions, rv_markers, rv_listed, rv_config>>
    /\ UNCHANGED <<helperVars, athenaVars, bucketVars, raceVars, classVars,
                   commandVars, legacyVars, policyVars, perfVars, tableVars>>

NextRestore ==
    \/ RestoreLoadConfig
    \/ ListObjectVersions
    \/ CheckVersion
    \/ DeleteMarker
    \/ RestoreCopyObject

SpecRestore == InitRestore /\ [][NextRestore]_vars

Mutating == {"delete_object", "copy_object"}

\* the requested version id is among the entries the listing has under Versions
VersionListed == rv_version_id \in {v.VersionId : v \in rv_versions}

\* the delete markers of the listing that are the latest version of their key
LatestMarkers == {rv_markers[k] : k \in {j \in DOMAIN rv_markers : rv_markers[j].IsLatest}}

\* a copy is a copy of the requested version, and with a latest delete marker
\* listed an answered deletion of such a marker was issued before it
MarkerRemovedBeforeCopy ==
    \A j \in DOMAIN rv_requests :
        rv_requests[j].op = "copy_object"
            => /\ rv_requests[j].VersionId = rv_version_id
               /\ LatestMarkers # {}
                    => \E i \in 1..(j - 1) :
                          /\ rv_requests[i].op = "delete_object"
                          /\ ~rv_requests[i].error
                          /\ \E m \in LatestMarkers :
                                rv_requests[i].VersionId = m.VersionId

\* a ClientError ends the command with a message: the request it answered is
\* the last one, and the command does not end in an exception
ServiceErrorEchoed ==
    \A j \in DOMAIN rv_requests :
        rv_requests[j].error
            => /\ j = Len(rv_requests)
               /\ rv_pc = "done"
               /\ rv_echo # <<>>
               /\ rv_echo[Len(rv_echo)] = "Error restoring version"

====
